---- MODULE Spec2Model ----
(***************************************************************************)
(* Model of the video-downloader link-resolution engine:                   *)
(*   downie_dispatch.py      classify_url, extract_links, cookie wrappers, *)
(*                           main and send_to_downie                       *)
(*   cate/twitter_video.py   cookie resolution and merge, variant ranking, *)
(*                           extract_with_vxtwitter                        *)
(*   cate/other_video.py     generic page extractor and HLS selector       *)
(*   dry_run_from_csv.py     evaluate_urls, append_processed               *)
(*   archive_from_csv.py     main and dispatch_media                       *)
(* Strings whose characters matter (URLs, hosts) are sequences of          *)
(* one-character strings.                                                  *)
(***************************************************************************)
EXTENDS Integers, Sequences, FiniteSets, TLC

VARIABLES
    cl_parts,    \* classify_url: the pieces the input URL was written from
    cl_url,      \* classify_url: the input string
    cl_result,   \* classify_url: "pending", a classification, or "DispatchError"
    ck_in,       \* cookies: arguments, environment, files and collaborators' answers
    ck_pc,       \* cookies: position in resolve_cookies and its callers
    ck_inline,   \* resolve_cookies: local inline
    ck_file,     \* resolve_cookies: local file_based
    ck_command,  \* resolve_cookies: local command_cookies
    ck_jar,      \* value returned by resolve_cookies
    ck_exc,      \* exception in flight or caught ("none" when there is none)
    ck_handed,   \* cookies= argument the caller passes to extract_with_vxtwitter
    hl_in,       \* HLS selector: master_url, the answer of the GET, the playlist lines
    hl_pc,       \* HLS selector: "call", "returned" or "raised"
    hl_best,     \* HLS selector: best_url and best_score when the scan ended
    hl_result,   \* HLS selector: the returned URL
    pg_in,       \* page extractor: caller, page URL shape, answer of the GET, widgets
    pg_pc,       \* page extractor: position in extract_videos
    pg_configs,  \* extract_videos: configs
    pg_idx,      \* extract_videos: idx of the enumerate loop
    pg_videos,   \* extract_videos: videos
    pg_exc,      \* exception that left the call ("none" when there is none)
    cv_in,       \* choose_best_variant: the variants argument
    cv_pc,       \* choose_best_variant: "call", "returned" or "raised"
    cv_result,   \* choose_best_variant: the value returned or the exception raised
    vx_in,       \* extract_with_vxtwitter: the URL and the answers of the two endpoints
    vx_pc,       \* extract_with_vxtwitter: position in the function
    vx_details,  \* extract_with_vxtwitter: details
    vx_videos,   \* extract_with_vxtwitter: videos
    vx_consulted, \* the containers whose loop has run, in order
    vx_exc,      \* exception that left the call (type "none" when there is none)
    bt_in,       \* batch: the driver, its --dry-run flag and the input URLs
    bt_pc,       \* batch: position in the driver and in send_to_downie
    bt_idx,      \* batch: index of the input URL (of the success, in dispatch_media) at hand
    bt_strategy, \* batch: strategy of the URL at hand
    bt_loaded,   \* batch: twitter_cookies_loaded / cookies_loaded
    bt_cookies,  \* batch: twitter_cookies, "None" or "jar"
    bt_resolved, \* the indices of the input URLs at which resolve_twitter_cookies ran
    bt_successes, \* evaluate_urls: successes
    bt_failures, \* evaluate_urls: failures
    bt_extracted, \* evaluate_urls: extracted; in downie_dispatch.main the links of each URL
    bt_processed, \* the processed entries of the feed in the state file
    bt_failures_file,
                 \* the records of the failures file
    bt_links,    \* send_to_downie: urls
    bt_link,     \* send_to_downie: index of the url at hand
    bt_seen,     \* send_to_downie: seen
    bt_app,      \* send_to_downie: index of app in DOWNIE_APP_CANDIDATES
    bt_attempts, \* the apps tried for the latest url and their exit codes
    bt_handled,  \* each url send_to_downie finished with: its input, handed off or not
    bt_exit,     \* exit code, "DispatchError" when it left main, or "running"
    bt_passed    \* the latest extract_links call: its strategy and cookies arguments

cl_vars == <<cl_parts, cl_url, cl_result>>
ck_vars == <<ck_in, ck_pc, ck_inline, ck_file, ck_command, ck_jar, ck_exc, ck_handed>>
hl_vars == <<hl_in, hl_pc, hl_best, hl_result>>
pg_vars == <<pg_in, pg_pc, pg_configs, pg_idx, pg_videos, pg_exc>>
cv_vars == <<cv_in, cv_pc, cv_result>>
vx_vars == <<vx_in, vx_pc, vx_details, vx_videos, vx_consulted, vx_exc>>
bt_vars == <<bt_in, bt_pc, bt_idx, bt_strategy, bt_loaded, bt_cookies, bt_resolved,
             bt_successes, bt_failures, bt_extracted, bt_processed, bt_failures_file,
             bt_links, bt_link, bt_seen, bt_app, bt_attempts, bt_handled, bt_exit,
          bt_passed>>

vars == <<cl_parts, cl_url, cl_result,
          ck_in, ck_pc, ck_inline, ck_file, ck_command, ck_jar, ck_exc, ck_handed,
          hl_in, hl_pc, hl_best, hl_result,
          pg_in, pg_pc, pg_configs, pg_idx, pg_videos, pg_exc,
          cv_in, cv_pc, cv_result,
          vx_in, vx_pc, vx_details, vx_videos, vx_consulted, vx_exc,
          bt_in, bt_pc, bt_idx, bt_strategy, bt_loaded, bt_cookies, bt_resolved,
          bt_successes, bt_failures, bt_extracted, bt_processed, bt_failures_file,
          bt_links, bt_link, bt_seen, bt_app, bt_attempts, bt_handled, bt_exit,
          bt_passed>>

----------------------------------------------------------------------------
(* Character-sequence helpers (Python str methods used by the source)      *)

NoStr == <<>>

\* s.startswith(p)
StartsWith(s, p) ==
    /\ Len(p) <= Len(s)
    /\ SubSeq(s, 1, Len(p)) = p

\* s.endswith(p)
EndsWith(s, p) ==
    /\ Len(p) <= Len(s)
    /\ SubSeq(s, Len(s) - Len(p) + 1, Len(s)) = p

\* s.find(c) for a single character, 1-based; 0 when absent
Find(s, c) ==
    IF \E i \in 1..Len(s) : s[i] = c
    THEN CHOOSE i \in 1..Len(s) : s[i] = c /\ \A j \in 1..(i - 1) : s[j] # c
    ELSE 0

\* s.rfind(c) for a single character, 1-based; 0 when absent
RFind(s, c) ==
    IF \E i \in 1..Len(s) : s[i] = c
    THEN CHOOSE i \in 1..Len(s) : s[i] = c /\ \A j \in (i + 1)..Len(s) : s[j] # c
    ELSE 0

\* s.split(c)[-1]
SplitLast(s, c) == SubSeq(s, RFind(s, c) + 1, Len(s))

\* s.split(c, 1)[0]
SplitFirst(s, c) == IF Find(s, c) = 0 THEN s ELSE SubSeq(s, 1, Find(s, c) - 1)

UpperToLower ==
    [c \in {"Y", "T", "X", "H", "P", "S"} |->
        CASE c = "Y" -> "y" [] c = "T" -> "t" [] c = "X" -> "x"
          [] c = "H" -> "h" [] c = "P" -> "p" [] c = "S" -> "s"]

\* str.lower()
Lower(s) == [i \in 1..Len(s) |-> IF s[i] \in DOMAIN UpperToLower
                                 THEN UpperToLower[s[i]] ELSE s[i]]

SchemeChars ==
    {"a", "b", "c", "d", "e", "f", "g", "h", "i", "j", "k", "l", "m", "n", "o",
     "p", "q", "r", "s", "t", "u", "v", "w", "x", "y", "z", "Y", "T", "X", "H",
     "P", "S", "0", "1", "2", "3", "4", "5", "6", "7", "8", "9", "+", "-", "."}

\* index of the first of "/", "?", "#" at or after position from; Len(s)+1 when none
NetlocEnd(s, from) ==
    IF \E i \in from..Len(s) : s[i] \in {"/", "?", "#"}
    THEN CHOOSE i \in from..Len(s) :
            /\ s[i] \in {"/", "?", "#"}
            /\ \A j \in from..(i - 1) : s[j] \notin {"/", "?", "#"}
    ELSE Len(s) + 1

\* urllib.parse.urlparse(url), the fields classify_url reads: a scheme is
\* split off at the first ":" when everything before it is scheme characters
\* starting with a letter; "//" then opens the netloc, which runs to the
\* first "/", "?" or "#"; the path is what is left without query or fragment.
urlparse(url) ==
    LET i         == Find(url, ":")
        hasScheme == /\ i > 1
                     /\ url[1] \in SchemeChars \ {"0", "1", "2", "3", "4", "5", "6", "7", "8",
                                                   "9", "+", "-", "."}
                     /\ \A k \in 1..(i - 1) : url[k] \in SchemeChars
        scheme    == IF hasScheme THEN Lower(SubSeq(url, 1, i - 1)) ELSE NoStr
        rest      == IF hasScheme THEN SubSeq(url, i + 1, Len(url)) ELSE url
        hasNetloc == StartsWith(rest, <<"/", "/">>)
        e         == NetlocEnd(rest, 3)
        netloc    == IF hasNetloc THEN SubSeq(rest, 3, e - 1) ELSE NoStr
        tail      == IF hasNetloc THEN SubSeq(rest, e, Len(rest)) ELSE rest
        noFrag    == SplitFirst(tail, "#")
        path      == SplitFirst(noFrag, "?")
    IN  [scheme |-> scheme, netloc |-> netloc, path |-> path]

----------------------------------------------------------------------------
(* downie_dispatch.classify_url                                            *)

D_youtube_com == <<"y", "o", "u", "t", "u", "b", "e", ".", "c", "o", "m">>
D_youtu_be == <<"y", "o", "u", "t", "u", ".", "b", "e">>
D_x_com == <<"x", ".", "c", "o", "m">>
D_twitter_com == <<"t", "w", "i", "t", "t", "e", "r", ".", "c", "o", "m">>

classify_url(url) ==
    LET parsed == urlparse(url)
        host0  == Lower(IF parsed.netloc # NoStr THEN parsed.netloc ELSE parsed.path)
        host1  == SplitLast(host0, "@")
        host   == SplitFirst(host1, ":")
    IN  IF host0 = NoStr THEN "DispatchError"
        ELSE IF EndsWith(host, D_youtube_com) \/ EndsWith(host, D_youtu_be) THEN "youtube"
        ELSE IF EndsWith(host, D_x_com) \/ EndsWith(host, D_twitter_com) THEN "twitter"
        ELSE "other"

(* Inputs: URLs written as [scheme "://"] [userinfo "@"] host [":" port] path *)

Hosts ==
    {<<"y", "o", "u", "t", "u", "b", "e", ".", "c", "o", "m">>,
     <<"w", "w", "w", ".", "y", "o", "u", "t", "u", "b", "e", ".", "c", "o", "m">>,
     <<"y", "o", "u", "t", "u", ".", "b", "e">>,
     <<"Y", "o", "u", "T", "u", "b", "e", ".", "c", "o", "m">>,
     <<"n", "o", "t", "y", "o", "u", "t", "u", "b", "e", ".", "c", "o", "m">>,
     <<"x", ".", "c", "o", "m">>,
     <<"t", "w", "i", "t", "t", "e", "r", ".", "c", "o", "m">>,
     <<"m", "o", "b", "i", "l", "e", ".", "t", "w", "i", "t", "t", "e", "r", ".", "c", "o", "m">>,
     <<"n", "e", "t", "f", "l", "i", "x", ".", "c", "o", "m">>,
     <<"e", "x", "a", "m", "p", "l", "e", ".", "o", "r", "g">>}

UrlText(p) == p.scheme \o p.userinfo \o p.host \o p.port \o p.path

ClassifyInit ==
    /\ cl_parts \in
        LET paths == {NoStr, <<"/", "a">>, <<"/", "x", ".", "c", "o", "m">>,
                      <<"?", "u", "=", "x", ".", "c", "o", "m">>}
        IN  [scheme : {<<"h", "t", "t", "p", "s", ":", "/", "/">>},
             userinfo : {NoStr, <<"u", ":", "p", "@">>, <<"x", ".", "c", "o", "m", "@">>},
             host : Hosts \cup {NoStr}, port : {NoStr, <<":", "4", "4", "3">>},
             path : paths]
            \cup
            [scheme : {NoStr}, userinfo : {NoStr}, host : Hosts \cup {NoStr},
             port : {NoStr}, path : paths]
    /\ cl_url = UrlText(cl_parts)
    /\ cl_result = "pending"

ClassifyIdle ==
    /\ cl_parts = [scheme |-> NoStr, userinfo |-> NoStr, host |-> NoStr,
                   port |-> NoStr, path |-> NoStr]
    /\ cl_url = NoStr
    /\ cl_result = "pending"

\* one call classify_url(cl_url)
Classify ==
    /\ cl_result = "pending"
    /\ cl_result' = classify_url(cl_url)
    /\ UNCHANGED <<cl_parts, cl_url>>

(* Claims about classify_url *)

\* the host as the URL's author wrote it, lower-cased
WrittenHost == Lower(cl_parts.host)
IsDomainOrSubdomain(h, d) == h = d \/ EndsWith(h, <<".">> \o d)
ExpectedClass(h) ==
    IF IsDomainOrSubdomain(h, D_youtube_com) \/ IsDomainOrSubdomain(h, D_youtu_be)
    THEN "youtube"
    ELSE IF IsDomainOrSubdomain(h, D_x_com) \/ IsDomainOrSubdomain(h, D_twitter_com)
    THEN "twitter"
    ELSE "other"

\* C1: for a URL with scheme and hostname, classify_url answers youtube exactly
\* for youtube.com, youtu.be and their subdomains, twitter exactly for x.com,
\* twitter.com and their subdomains, and other for every other host.
C1_HostClassification ==
    (cl_result # "pending" /\ cl_parts.scheme # NoStr /\ cl_parts.host # NoStr)
        => cl_result = ExpectedClass(WrittenHost)

\* C2: an input without a netloc (no "//host" part) always fails with
\* DispatchError, whatever its path.
C2_NoHostnameRaises ==
    (cl_result # "pending"
        /\ (cl_parts.scheme = NoStr
            \/ (cl_parts.userinfo = NoStr /\ cl_parts.host = NoStr /\ cl_parts.port = NoStr)))
        => cl_result = "DispatchError"

----------------------------------------------------------------------------
(* Cookie store: cate/twitter_video.py and the wrappers of                 *)
(* downie_dispatch.py.  A dict is a function from CookieNames to a value   *)
(* or Absent; an Optional[dict] is a record with a none flag.              *)

CookieNames == {"a", "b"}
Absent == "-"

\* each source writes its own value, so a merged value names its source
V_inline == "1"
V_file == "2"
V_command == "3"
MaxSegments == 2

EmptyDict == [k \in CookieNames |-> Absent]
DictOf(names, v) == [k \in CookieNames |-> IF k \in names THEN v ELSE Absent]
Keys(d) == {k \in CookieNames : d[k] # Absent}

None == [none |-> TRUE, d |-> EmptyDict]
Some(d) == [none |-> FALSE, d |-> d]
\* Python truthiness of an Optional[dict]
Truthy(o) == ~o.none /\ Keys(o.d) # {}

\* dict.update
Update(d, s) == [k \in CookieNames |-> IF s[k] # Absent THEN s[k] ELSE d[k]]

\* segments of an inline cookie string between ";": NAME=VALUE or text without "="
Junk == [name |-> "", value |-> ""]
SeqsUpTo(S, n) == UNION {[1..k -> S] : k \in 0..n}

RECURSIVE parse_cookie_string(_)
parse_cookie_string(segs) ==
    IF segs = <<>> THEN EmptyDict
    ELSE LET init == parse_cookie_string(SubSeq(segs, 1, Len(segs) - 1))
             last == segs[Len(segs)]
         IN  IF last = Junk THEN init
             ELSE [init EXCEPT ![last.name] = last.value]

RECURSIVE build_cookie_jar_reversed(_)
build_cookie_jar_reversed(sources) ==
    IF sources = <<>> THEN None
    ELSE LET rest == build_cookie_jar_reversed(Tail(sources))
             src  == Head(sources)
             base == IF Truthy(src) THEN src.d ELSE EmptyDict
             m    == Update(rest.d, base)
         IN  IF Keys(m) = {} THEN None ELSE Some(m)

RECURSIVE build_cookie_jar_merge(_)
build_cookie_jar_merge(sources) ==
    IF sources = <<>> THEN EmptyDict
    ELSE LET init == build_cookie_jar_merge(SubSeq(sources, 1, Len(sources) - 1))
             last == sources[Len(sources)]
         IN  IF Truthy(last) THEN Update(init, last.d) ELSE init

\* build_cookie_jar(*sources): update in argument order, empty result is None
build_cookie_jar(sources) ==
    LET merged == build_cookie_jar_merge(sources)
    IN  IF Keys(merged) = {} THEN None ELSE Some(merged)

merge_cookie_dicts(base, extra) ==
    IF ~Truthy(base) /\ ~Truthy(extra) THEN None
    ELSE IF ~Truthy(base) THEN Some(extra.d)
    ELSE IF ~Truthy(extra) THEN Some(base.d)
    ELSE Some(Update(base.d, extra.d))

NonEmptyDicts(v) == {DictOf(ns, v) : ns \in (SUBSET CookieNames) \ {{}}}

\* cookie      args.cookie: absent or the segments of the string
\* env_cookie  TWITTER_COOKIE
\* cookie_file args.cookie_file given;  env_file  TWITTER_COOKIE_FILE set
\* disk        the cookie file: "missing" or its parsed content
\* cookie_json the --cookie-json bundle
\* helper      outcome of the cookie-refresh command: "raise" or its cookies
\* domain      bundle.requests of cookie-update for the URL
CookieInputs ==
    {i \in [caller : {"downie_dispatch.main", "evaluate_urls", "twitter_video.main"},
            cookie : [none : {TRUE}, segs : {<<>>}]
                     \cup [none : {FALSE},
                           segs : SeqsUpTo({[name |-> n, value |-> V_inline] : n \in CookieNames}
                                           \cup {Junk}, MaxSegments) \ {<<>>}],
            env_cookie : [none : {TRUE}, segs : {<<>>}]
                         \cup [none : {FALSE}, segs : {<<[name |-> "b", value |-> V_inline]>>}],
            cookie_file : BOOLEAN,
            env_file : BOOLEAN,
            disk : [missing : {TRUE}, d : {EmptyDict}]
                   \cup [missing : {FALSE}, d : NonEmptyDicts(V_file) \cup {EmptyDict}],
            cookie_json : {None} \cup {Some(d) : d \in NonEmptyDicts("4")},
            helper : [raise : {TRUE}, jar : {None}]
                     \cup [raise : {FALSE},
                           jar : {None} \cup {Some(d) : d \in NonEmptyDicts(V_command)}],
            domain : {None} \cup {Some(d) : d \in NonEmptyDicts("5")}] :
        /\ i.caller # "downie_dispatch.main" => i.cookie_json = None /\ i.domain = None
        /\ ~i.cookie_file /\ ~i.env_file => i.disk.missing}

CookieInit ==
    /\ ck_in \in CookieInputs
    /\ ck_pc = "inline"
    /\ ck_inline = None
    /\ ck_file = None
    /\ ck_command = None
    /\ ck_jar = None
    /\ ck_exc = "none"
    /\ ck_handed = None

CookieIdle ==
    /\ ck_in = [caller |-> "twitter_video.main",
                cookie |-> [none |-> TRUE, segs |-> <<>>],
                env_cookie |-> [none |-> TRUE, segs |-> <<>>],
                cookie_file |-> FALSE, env_file |-> FALSE,
                disk |-> [missing |-> TRUE, d |-> EmptyDict],
                cookie_json |-> None,
                helper |-> [raise |-> FALSE, jar |-> None],
                domain |-> None]
    /\ ck_pc = "idle"
    /\ ck_inline = None
    /\ ck_file = None
    /\ ck_command = None
    /\ ck_jar = None
    /\ ck_exc = "none"
    /\ ck_handed = None

\* inline_cookie = args.cookie or os.environ.get("TWITTER_COOKIE")
inline_cookie == IF ~ck_in.cookie.none THEN ck_in.cookie ELSE ck_in.env_cookie
\* cookie_file = args.cookie_file or os.environ.get("TWITTER_COOKIE_FILE")
cookie_file == ck_in.cookie_file \/ ck_in.env_file

\* resolve_cookies: inline = parse_cookie_string(inline_cookie) if inline_cookie else None
ResolveInline ==
    /\ ck_pc = "inline"
    /\ ck_inline' = IF inline_cookie.none THEN None
                    ELSE Some(parse_cookie_string(inline_cookie.segs))
    /\ ck_pc' = "file"
    /\ UNCHANGED <<ck_in, ck_file, ck_command, ck_jar, ck_exc, ck_handed>>

\* resolve_cookies: file_based = load_cookie_file(cookie_file) if cookie_file else None
ResolveFile ==
    /\ ck_pc = "file"
    /\ IF cookie_file /\ ck_in.disk.missing
       THEN /\ ck_exc' = "FileNotFoundError"
            /\ ck_pc' = "raised"
            /\ UNCHANGED ck_file
       ELSE /\ ck_file' = IF cookie_file THEN Some(ck_in.disk.d) ELSE None
            /\ ck_pc' = "command"
            /\ UNCHANGED ck_exc
    /\ UNCHANGED <<ck_in, ck_inline, ck_command, ck_jar, ck_handed>>

\* resolve_cookies: the try around _fetch_cookies_via_command
ResolveCommand ==
    /\ ck_pc = "command"
    /\ ck_command' = IF ck_in.helper.raise THEN None ELSE ck_in.helper.jar
    /\ ck_pc' = "build"
    /\ UNCHANGED <<ck_in, ck_inline, ck_file, ck_jar, ck_exc, ck_handed>>

\* resolve_cookies: return build_cookie_jar(command_cookies, file_based, inline)
ResolveBuild ==
    /\ ck_pc = "build"
    /\ ck_jar' = build_cookie_jar(<<ck_command, ck_file, ck_inline>>)
    /\ ck_pc' = "returned"
    /\ UNCHANGED <<ck_in, ck_inline, ck_file, ck_command, ck_exc, ck_handed>>

\* resolve_twitter_cookies: return twitter_video.resolve_cookies(temp_args)
WrapperReturn ==
    /\ ck_pc = "returned"
    /\ ck_in.caller \in {"downie_dispatch.main", "evaluate_urls"}
    /\ ck_pc' = "wrapped"
    /\ UNCHANGED <<ck_in, ck_inline, ck_file, ck_command, ck_jar, ck_exc, ck_handed>>

\* resolve_twitter_cookies: except Exception -> warning, return None
WrapperCatch ==
    /\ ck_pc = "raised"
    /\ ck_in.caller \in {"downie_dispatch.main", "evaluate_urls"}
    /\ ck_jar' = None
    /\ ck_pc' = "wrapped"
    /\ UNCHANGED <<ck_in, ck_inline, ck_file, ck_command, ck_exc, ck_handed>>

\* downie_dispatch.main: strategy_cookies = merge_cookie_dicts(twitter_cookies,
\* domain_cookies), passed to extract_links
DispatchMerge ==
    /\ ck_pc = "wrapped"
    /\ ck_in.caller = "downie_dispatch.main"
    /\ ck_handed' = merge_cookie_dicts(ck_jar, ck_in.domain)
    /\ ck_pc' = "extracting"
    /\ UNCHANGED <<ck_in, ck_inline, ck_file, ck_command, ck_jar, ck_exc>>

\* evaluate_urls: extract_links(url, strategy, twitter_cookies)
EvaluatePass ==
    /\ ck_pc = "wrapped"
    /\ ck_in.caller = "evaluate_urls"
    /\ ck_handed' = ck_jar
    /\ ck_pc' = "extracting"
    /\ UNCHANGED <<ck_in, ck_inline, ck_file, ck_command, ck_jar, ck_exc>>

\* twitter_video.main: extract_with_vxtwitter(tweet_url, cookies=cookies)
TwitterMainPass ==
    /\ ck_pc = "returned"
    /\ ck_in.caller = "twitter_video.main"
    /\ ck_handed' = ck_jar
    /\ ck_pc' = "extracting"
    /\ UNCHANGED <<ck_in, ck_inline, ck_file, ck_command, ck_jar, ck_exc>>

\* twitter_video.main: except Exception -> "Failed to load cookies", return 1
TwitterMainFail ==
    /\ ck_pc = "raised"
    /\ ck_in.caller = "twitter_video.main"
    /\ ck_pc' = "exit1"
    /\ UNCHANGED <<ck_in, ck_inline, ck_file, ck_command, ck_jar, ck_exc, ck_handed>>

(* Claims about the cookie store *)

\* what each supplied source defines
SrcInline == IF inline_cookie.none THEN EmptyDict ELSE parse_cookie_string(inline_cookie.segs)
SrcFile == IF cookie_file /\ ~ck_in.disk.missing THEN ck_in.disk.d ELSE EmptyDict
SrcJson == ck_in.cookie_json.d
SrcCommand == IF ck_in.helper.raise THEN EmptyDict ELSE ck_in.helper.jar.d
SrcDomain == ck_in.domain.d

\* values the precedence order auto-fetched < bundle JSON < file < inline allows for k
PrecedenceValues(k) ==
    IF SrcInline[k] # Absent THEN {SrcInline[k]}
    ELSE IF SrcFile[k] # Absent THEN {SrcFile[k]}
    ELSE IF SrcJson[k] # Absent THEN {SrcJson[k]}
    ELSE IF SrcCommand[k] # Absent \/ SrcDomain[k] # Absent
         THEN {SrcCommand[k], SrcDomain[k]} \ {Absent}
    ELSE {Absent}

\* C4: in the jar handed to the social extractor every cookie name carries the
\* value of the highest-precedence source that defines it (auto-fetched <
\* bundle JSON < file < inline), and no name of a supplied source is missing.
C4_MergePrecedence ==
    (ck_pc = "extracting" /\ ck_exc = "none")
        => \A k \in CookieNames : ck_handed.d[k] \in PrecedenceValues(k)

C5_Case ==
    /\ SrcInline = DictOf({"a"}, V_inline)
    /\ SrcFile = DictOf({"a", "b"}, V_file)
    /\ SrcCommand = DictOf({"a"}, V_command)
    /\ ck_pc \in {"returned", "wrapped", "extracting"}

\* C5 as stated: inline {a:1}, file {a:2,b:2}, auto-fetched {a:3} merge to {a:3,b:2}.
C5_ExampleAsStated ==
    C5_Case => ck_jar = Some([k \in CookieNames |-> IF k = "a" THEN V_command ELSE V_file])

\* C5 amended: inline {a:1}, file {a:2,b:2}, auto-fetched {a:3} merge to
\* {a:1,b:2}: the inline source has the highest precedence.
C5_ExampleAmended ==
    C5_Case => ck_jar = Some([k \in CookieNames |-> IF k = "a" THEN V_inline ELSE V_file])

C5_Witness ==
    /\ C5_Case
    /\ ck_pc = "returned"

\* C6: a cookie file that is asked for but absent stops the run before any
\* extraction (the FileNotFoundError reaches the caller), while a failing
\* automatic fetch never fails resolution and keeps the file and inline cookies.
C6_MissingFileIsHard ==
    /\ (cookie_file /\ ck_in.disk.missing) => ck_pc # "extracting"
    /\ (ck_in.helper.raise /\ ck_pc = "returned")
        => \A k \in Keys(SrcFile) \cup Keys(SrcInline) : ck_jar.d[k] # Absent

----------------------------------------------------------------------------
(* HLS variant selector: cate/other_video.py                               *)
(* A URL is an origin ("" for a relative reference), the path segments and *)
(* a query string.                                                         *)

NoUrl == [origin |-> "", path |-> <<>>, query |-> ""]
IsAbsolute(u) == u.origin # ""

\* urllib.parse.urljoin(base, ref): an absolute ref stands, a relative one
\* replaces the last segment of the base path and takes the base's origin
urljoin(base, ref) ==
    IF IsAbsolute(ref) THEN ref
    ELSE [origin |-> base.origin,
          path |-> SubSeq(base.path, 1, Len(base.path) - 1) \o ref.path,
          query |-> ref.query]

\* an attribute of a #EXT-X-STREAM-INF tag as parse_stream_inf_attributes
\* leaves it: not given (or empty), text that int() rejects, or an integer
AttrAbsent == [given |-> FALSE, int |-> FALSE, n |-> 0]
AttrText == [given |-> TRUE, int |-> FALSE, n |-> 0]
AttrInt(n) == [given |-> TRUE, int |-> TRUE, n |-> n]

\* height of a tag: int(resolution.split("x")[1]), -1 when absent or malformed
StreamHeight(tag) ==
    IF tag.resolution.given /\ tag.resolution.int THEN tag.resolution.n ELSE -1

\* bandwidth of a tag: AVERAGE-BANDWIDTH or else BANDWIDTH, -1 when absent or malformed
StreamBandwidth(tag) ==
    LET bw == IF tag.average_bandwidth.given THEN tag.average_bandwidth ELSE tag.bandwidth
    IN  IF bw.given /\ bw.int THEN bw.n ELSE -1

\* Python's tuple comparison score > best_score on pairs
ScoreGreater(s, b) == s[1] > b[1] \/ (s[1] = b[1] /\ s[2] > b[2])

\* the inner while: index of the first line at or after j that does not
\* start with "#"; Len(lines) + 1 when there is none
NextUri(lines, j) ==
    IF \E k \in j..Len(lines) : lines[k].kind = "uri"
    THEN CHOOSE k \in j..Len(lines) :
            /\ lines[k].kind = "uri"
            /\ \A m \in j..(k - 1) : lines[m].kind # "uri"
    ELSE Len(lines) + 1

NoBest == [some |-> FALSE, url |-> NoUrl, score |-> <<-1, -1>>]

\* the outer while of choose_best_hls_variant from index i on
RECURSIVE ScanLines(_, _, _, _)
ScanLines(master_url, lines, i, best) ==
    IF i > Len(lines) THEN best
    ELSE IF lines[i].kind = "inf"
    THEN LET j     == NextUri(lines, i + 1)
             score == <<StreamHeight(lines[i]), StreamBandwidth(lines[i])>>
             nb    == IF j <= Len(lines) /\ ScoreGreater(score, best.score)
                      THEN [some |-> TRUE, url |-> urljoin(master_url, lines[j].url),
                            score |-> score]
                      ELSE best
         IN  ScanLines(master_url, lines, j, nb)
    ELSE ScanLines(master_url, lines, i + 1, best)

IsMasterPlaylist(lines) == \E k \in 1..Len(lines) : lines[k].kind = "inf"

\* choose_best_hls_variant(master_url, referer) given what the GET answers:
\* raised is the ArchiveExtractionError of a failed request
choose_best_hls_variant(master_url, fetch_ok, lines) ==
    IF ~IsAbsolute(master_url) \/ ~fetch_ok
    THEN [raised |-> TRUE, best |-> NoBest, url |-> NoUrl]
    ELSE IF ~IsMasterPlaylist(lines)
    THEN [raised |-> FALSE, best |-> NoBest, url |-> master_url]
    ELSE LET best == ScanLines(master_url, lines, 1, NoBest)
         IN  [raised |-> FALSE, best |-> best,
              url |-> IF best.some THEN best.url ELSE master_url]

(* Inputs of the HLS selector *)

MaxLines == 5

MasterUrl == [origin |-> "https://cdn.example", path |-> <<"v", "master.m3u8">>, query |-> ""]
UriRelative == [origin |-> "", path |-> <<"low.m3u8">>, query |-> ""]
UriAbsolute == [origin |-> "https://media.example", path |-> <<"hi", "index.m3u8">>, query |-> ""]

InfLine(res, avg, bw) ==
    [kind |-> "inf", resolution |-> res, average_bandwidth |-> avg, bandwidth |-> bw,
     url |-> NoUrl]
UriLine(u) ==
    [kind |-> "uri", resolution |-> AttrAbsent, average_bandwidth |-> AttrAbsent,
     bandwidth |-> AttrAbsent, url |-> u]
CommentLine ==
    [kind |-> "comment", resolution |-> AttrAbsent, average_bandwidth |-> AttrAbsent,
     bandwidth |-> AttrAbsent, url |-> NoUrl]

Tag720 == InfLine(AttrInt(720), AttrAbsent, AttrInt(8))
Tag1080 == InfLine(AttrInt(1080), AttrInt(5), AttrInt(9))

HlsInit ==
    /\ hl_in \in
        [master_url : {MasterUrl}, fetch_ok : {TRUE},
         lines : SeqsUpTo({InfLine(AttrAbsent, AttrAbsent, AttrAbsent), Tag720, Tag1080,
                           InfLine(AttrInt(720), AttrText, AttrInt(8)),
                           InfLine(AttrText, AttrAbsent, AttrInt(8)), CommentLine,
                           UriLine(UriRelative), UriLine(UriAbsolute)}, MaxLines)]
        \cup [master_url : {MasterUrl}, fetch_ok : {FALSE}, lines : {<<>>}]
    /\ hl_pc = "call"
    /\ hl_best = NoBest
    /\ hl_result = NoUrl

HlsIdle ==
    /\ hl_in = [master_url |-> NoUrl, fetch_ok |-> FALSE, lines |-> <<>>]
    /\ hl_pc = "idle"
    /\ hl_best = NoBest
    /\ hl_result = NoUrl

HlsOutcome == choose_best_hls_variant(hl_in.master_url, hl_in.fetch_ok, hl_in.lines)

\* the request fails: ArchiveExtractionError("Failed to load m3u8")
HlsFetchFails ==
    /\ hl_pc = "call"
    /\ HlsOutcome.raised
    /\ hl_pc' = "raised"
    /\ UNCHANGED <<hl_in, hl_best, hl_result>>

\* no #EXT-X-STREAM-INF in the body: return master_url
HlsMediaPlaylist ==
    /\ hl_pc = "call"
    /\ ~HlsOutcome.raised
    /\ ~IsMasterPlaylist(hl_in.lines)
    /\ hl_pc' = "returned"
    /\ hl_result' = HlsOutcome.url
    /\ UNCHANGED <<hl_in, hl_best>>

\* the line scan and return best_url or master_url
HlsScan ==
    /\ hl_pc = "call"
    /\ ~HlsOutcome.raised
    /\ IsMasterPlaylist(hl_in.lines)
    /\ hl_pc' = "returned"
    /\ hl_best' = HlsOutcome.best
    /\ hl_result' = HlsOutcome.url
    /\ UNCHANGED hl_in

(* Claims about the HLS selector *)

\* the variants of a playlist: each #EXT-X-STREAM-INF tag with a URI line after it
VariantTags(lines) ==
    {i \in 1..Len(lines) : lines[i].kind = "inf" /\ NextUri(lines, i + 1) <= Len(lines)}
VariantScore(lines, i) == <<StreamHeight(lines[i]), StreamBandwidth(lines[i])>>
VariantUrl(master_url, lines, i) == urljoin(master_url, lines[NextUri(lines, i + 1)].url)
\* lexicographic order on (height, bandwidth), written out
Outranks(s, t) == s[1] > t[1] \/ (s[1] = t[1] /\ s[2] > t[2])
TopVariants(lines) ==
    {i \in VariantTags(lines) :
        \A j \in VariantTags(lines) : ~Outranks(VariantScore(lines, j), VariantScore(lines, i))}
FirstOf(S) == CHOOSE i \in S : \A j \in S : i <= j

\* C7: when a variant URL is returned it is the URL of the first-encountered
\* variant among those with the greatest (height, bandwidth), height first.
C7_BestVariantReturned ==
    (hl_pc = "returned" /\ hl_best.some)
        => hl_result = VariantUrl(hl_in.master_url, hl_in.lines, FirstOf(TopVariants(hl_in.lines)))

\* C8: for a master playlist with at least one tag followed by a URI line the
\* result is the resolved URL of a variant; the master URL comes back only
\* when no variant has a URL.
C8_MasterOnlyWithoutVariants ==
    (hl_pc = "returned" /\ IsMasterPlaylist(hl_in.lines) /\ VariantTags(hl_in.lines) # {})
        => \E i \in VariantTags(hl_in.lines) :
                hl_result = VariantUrl(hl_in.master_url, hl_in.lines, i)

\* C22: the line scan considers every #EXT-X-STREAM-INF tag: each tag with a
\* URI line somewhere after it contributes its own (height, bandwidth) score,
\* paired with the next non-comment line, so no such tag outranks the best
\* score the scan ends with; no tag is skipped, also when two tags occur with
\* no URI line between them.
C22_EveryTagConsidered ==
    (hl_pc = "returned" /\ IsMasterPlaylist(hl_in.lines))
        => \A i \in VariantTags(hl_in.lines) :
                ~Outranks(VariantScore(hl_in.lines, i), hl_best.score)

----------------------------------------------------------------------------
(* Generic page extractor: cate/other_video.py, and the dispatcher's       *)
(* extract_links for the "other" strategy                                  *)

MaxConfigs == 3

\* "m3u8" in url.split("?", 1)[0].lower()
HasM3u8(u) == \E k \in 1..Len(u.path) : u.path[k] \in {"master.m3u8", "low.m3u8", "index.m3u8"}

\* one match of DPLAYER_RE: the unescaped data-config text parses or not
\* (json), and for a JSON object what "video" and its "url" hold; playlist is
\* what a GET of the url answers when it is fetched as an m3u8
Widget(json, video, url, value, fetch_ok, lines) ==
    [json |-> json, video |-> video, url |-> url, value |-> value,
     fetch_ok |-> fetch_ok, lines |-> lines]

\* the widgets a page is written from: text that is not JSON, a JSON array,
\* objects without a usable video.url (missing, a number, "", blank), mp4
\* URLs (absolute, relative, with "m3u8" in the query only), and m3u8 URLs
\* whose playlist cannot be fetched, is a media playlist, or is a master
Widgets ==
    LET none(json, video, url) == Widget(json, video, url, NoUrl, FALSE, <<>>)
        str(value, fetch_ok, lines) == Widget("object", "object", "str", value, fetch_ok, lines)
    IN  {none("invalid", "absent", "absent"),
         none("array", "absent", "absent"),
         none("object", "absent", "absent"),
         none("object", "text", "absent"),
         none("object", "object", "absent"),
         none("object", "object", "number"),
         none("object", "object", "empty"),
         none("object", "object", "blank"),
         str([origin |-> "https://cdn.example", path |-> <<"v", "a.mp4">>, query |-> ""],
             FALSE, <<>>),
         str([origin |-> "", path |-> <<"media", "a.mp4">>, query |-> ""], FALSE, <<>>),
         str([origin |-> "https://cdn.example", path |-> <<"v", "b.mp4">>,
              query |-> "fmt=m3u8"], FALSE, <<>>),
         str(MasterUrl, FALSE, <<>>),
         str(MasterUrl, TRUE, <<CommentLine, UriLine(UriRelative)>>),
         str(MasterUrl, TRUE,
             <<CommentLine, Tag720, UriLine(UriRelative), Tag1080, UriLine(UriAbsolute)>>),
         str(MasterUrl, TRUE, <<Tag720, CommentLine, UriLine(UriRelative)>>),
         str([origin |-> "", path |-> <<"hls", "master.m3u8">>, query |-> ""], TRUE,
             <<Tag720, UriLine(UriRelative)>>)}

RECURSIVE parse_dplayer_configs_break(_)
parse_dplayer_configs_break(widgets) ==
    IF widgets = <<>> THEN <<>>
    ELSE IF Head(widgets).json = "invalid" THEN <<>>
    ELSE IF Head(widgets).json = "object"
    THEN <<Head(widgets)>> \o parse_dplayer_configs_break(Tail(widgets))
    ELSE parse_dplayer_configs_break(Tail(widgets))

\* parse_dplayer_configs(html): json.loads of every match, JSONDecodeError
\* skips the match, only dict values are kept
RECURSIVE parse_dplayer_configs(_)
parse_dplayer_configs(widgets) ==
    IF widgets = <<>> THEN <<>>
    ELSE IF Head(widgets).json = "object"
    THEN <<Head(widgets)>> \o parse_dplayer_configs(Tail(widgets))
    ELSE parse_dplayer_configs(Tail(widgets))

\* resolve_video_url(config, referer): some = FALSE is None, url = NoUrl is ""
resolve_video_url(config) ==
    IF config.video # "object" THEN [some |-> FALSE, url |-> NoUrl]
    ELSE IF config.url \in {"absent", "number", "empty"} THEN [some |-> FALSE, url |-> NoUrl]
    ELSE IF config.url = "blank" THEN [some |-> TRUE, url |-> NoUrl]
    ELSE IF HasM3u8(config.value)
    THEN LET hls == choose_best_hls_variant(config.value, config.fetch_ok, config.lines)
         IN  [some |-> TRUE, url |-> IF hls.raised THEN config.value ELSE hls.url]
    ELSE [some |-> TRUE, url |-> config.value]

PageInit ==
    /\ pg_in \in {i \in [entry : {"other_video.main", "extract_links"},
                         shape : {"archive", "no_scheme", "other_path"}, fetch_ok : BOOLEAN,
                         cookies : {"None", "jar"}, widgets : SeqsUpTo(Widgets, MaxConfigs)] :
                    /\ i.entry = "other_video.main" => i.cookies = "None"
                    /\ (i.shape # "archive" \/ ~i.fetch_ok \/ i.entry = "extract_links")
                            => Len(i.widgets) <= 1}
    /\ pg_pc = "start"
    /\ pg_configs = <<>>
    /\ pg_idx = 1
    /\ pg_videos = <<>>
    /\ pg_exc = "none"

PageIdle ==
    /\ pg_in = [entry |-> "other_video.main", shape |-> "archive", fetch_ok |-> FALSE,
                cookies |-> "None", widgets |-> <<>>]
    /\ pg_pc = "idle"
    /\ pg_configs = <<>>
    /\ pg_idx = 1
    /\ pg_videos = <<>>
    /\ pg_exc = "none"

\* downie_dispatch.extract_links, strategy "other":
\* other_video.extract_videos(url, cookies=cookies); extract_videos takes url
\* only, so the call raises TypeError before the body runs
ExtractLinksOther ==
    /\ pg_pc = "start"
    /\ pg_in.entry = "extract_links"
    /\ pg_pc' = "raised"
    /\ pg_exc' = "TypeError"
    /\ UNCHANGED <<pg_in, pg_configs, pg_idx, pg_videos>>

\* extract_videos(url): ensure_archive_url(url)
EnsureArchiveUrl ==
    /\ pg_pc = "start"
    /\ pg_in.entry = "other_video.main"
    /\ IF pg_in.shape = "archive"
       THEN pg_pc' = "fetch" /\ UNCHANGED pg_exc
       ELSE pg_pc' = "raised" /\ pg_exc' = "ArchiveExtractionError"
    /\ UNCHANGED <<pg_in, pg_configs, pg_idx, pg_videos>>

\* extract_videos: html = fetch_html(url)
FetchHtml ==
    /\ pg_pc = "fetch"
    /\ IF pg_in.fetch_ok
       THEN pg_pc' = "parse" /\ UNCHANGED pg_exc
       ELSE pg_pc' = "raised" /\ pg_exc' = "ArchiveExtractionError"
    /\ UNCHANGED <<pg_in, pg_configs, pg_idx, pg_videos>>

\* extract_videos: configs = parse_dplayer_configs(html)
ParseConfigs ==
    /\ pg_pc = "parse"
    /\ pg_configs' = parse_dplayer_configs(pg_in.widgets)
    /\ pg_idx' = 1
    /\ pg_pc' = "loop"
    /\ UNCHANGED <<pg_in, pg_videos, pg_exc>>

\* extract_videos: one pass of the for loop over enumerate(configs, 1)
ResolveConfig ==
    /\ pg_pc = "loop"
    /\ pg_idx <= Len(pg_configs)
    /\ LET resolved == resolve_video_url(pg_configs[pg_idx])
       IN  pg_videos' = IF resolved.some /\ resolved.url # NoUrl
                        THEN Append(pg_videos, [index |-> pg_idx, url |-> resolved.url])
                        ELSE pg_videos
    /\ pg_idx' = pg_idx + 1
    /\ UNCHANGED <<pg_in, pg_pc, pg_configs, pg_exc>>

\* extract_videos: return videos
ReturnVideos ==
    /\ pg_pc = "loop"
    /\ pg_idx > Len(pg_configs)
    /\ pg_pc' = "returned"
    /\ UNCHANGED <<pg_in, pg_configs, pg_idx, pg_videos, pg_exc>>

(* Claims about the page extractor *)

\* a widget whose data-config is a JSON object with a non-blank string video.url
WellFormed(w) == w.json = "object" /\ w.video = "object" /\ w.url = "str"

\* what a well-formed widget resolves to: its url, or for an m3u8 url the
\* selector's answer, the url itself when the selector fails
WidgetResult(w) ==
    IF HasM3u8(w.value)
    THEN LET hls == choose_best_hls_variant(w.value, w.fetch_ok, w.lines)
         IN  IF hls.raised THEN w.value ELSE hls.url
    ELSE w.value

RECURSIVE ExpectedUrls(_)
ExpectedUrls(widgets) ==
    IF widgets = <<>> THEN <<>>
    ELSE (IF WellFormed(Head(widgets)) THEN <<WidgetResult(Head(widgets))>> ELSE <<>>)
         \o ExpectedUrls(Tail(widgets))

ResultUrls == [k \in 1..Len(pg_videos) |-> pg_videos[k].url]

\* C3: for an archive-shaped "other" URL whose page loads, extract_links
\* returns without raising one URL per resolving config, in page order.
C3_ExtractLinksOtherReturns ==
    (pg_in.entry = "extract_links" /\ pg_in.shape = "archive" /\ pg_in.fetch_ok
        /\ pg_pc # "start")
        => /\ pg_pc # "raised"
           /\ pg_pc = "returned" => ResultUrls = ExpectedUrls(pg_in.widgets)

\* C9: extract_videos never raises because of a widget: malformed widgets
\* are skipped, every well-formed widget yields its result in page order,
\* and the list is empty when nothing resolves.
C9_MalformedWidgetsSkipped ==
    pg_in.entry = "other_video.main"
        => /\ pg_pc = "raised" => (pg_in.shape # "archive" \/ ~pg_in.fetch_ok)
           /\ pg_pc = "returned" => ResultUrls = ExpectedUrls(pg_in.widgets)

C9_Witness ==
    /\ pg_in.entry = "other_video.main"
    /\ pg_pc = "returned"
    /\ \E k \in 1..Len(pg_in.widgets) : pg_in.widgets[k].json = "invalid"
    /\ \E k \in 1..Len(pg_in.widgets) :
            /\ WellFormed(pg_in.widgets[k])
            /\ \E m \in 1..(k - 1) : pg_in.widgets[m].json = "invalid"
    /\ Len(pg_videos) >= 1

\* C10: every URL an extractor returns is absolute (has scheme and host).
C10_ResultsAbsolute ==
    pg_pc = "returned" => \A k \in 1..Len(pg_videos) : IsAbsolute(pg_videos[k].url)

----------------------------------------------------------------------------
(* Variant ranking: cate/twitter_video.py, choose_best_variant             *)

\* a in b for strings
Contains(s, sub) == \E i \in 1..(Len(s) - Len(sub) + 1) : SubSeq(s, i, i + Len(sub) - 1) = sub

\* a > b for two tuples of integers of one length
TupleGreater(a, b) ==
    \E i \in 1..Len(a) : a[i] > b[i] /\ \A j \in 1..(i - 1) : a[j] = b[j]

CT_video_mp4 == <<"v", "i", "d", "e", "o", "/", "m", "p", "4">>
CT_video_webm == <<"v", "i", "d", "e", "o", "/", "w", "e", "b", "m">>

VariantKeys == {"content_type", "bitrate", "height", "width", "url"}

\* one entry of a variants list. dict is FALSE for an entry that is not a
\* JSON object; keys are the keys the object has; junk are the keys whose
\* value has the wrong type (a number for content_type, a non-numeric string
\* for bitrate, height, width); a key the object lacks holds <<>>, 0 or "".
Variant(keys, junk, content_type, bitrate, height, width, url) ==
    [dict |-> TRUE, keys |-> keys, junk |-> junk, content_type |-> content_type,
     bitrate |-> bitrate, height |-> height, width |-> width, url |-> url]

NotADict ==
    [dict |-> FALSE, keys |-> {}, junk |-> {}, content_type |-> <<>>,
     bitrate |-> 0, height |-> 0, width |-> 0, url |-> ""]

\* (v.get("content_type") or "").lower()
content_type_lower(v) == Lower(IF "content_type" \in v.keys THEN v.content_type ELSE <<>>)

\* int(v.get(key) or 0)
int_or_0(v, key) == IF key \in v.keys THEN v[key] ELSE 0

\* score(v) of choose_best_variant
score(v) ==
    <<IF Contains(content_type_lower(v), <<"m", "p", "4">>) THEN 1 ELSE 0,
      int_or_0(v, "bitrate"), int_or_0(v, "height"), int_or_0(v, "width")>>

\* max(ranked_pool, key=score): the first item no other item's key exceeds
max_by_score(ranked_pool) ==
    ranked_pool[CHOOSE i \in 1..Len(ranked_pool) :
        /\ \A j \in 1..Len(ranked_pool) :
                ~TupleGreater(score(ranked_pool[j]), score(ranked_pool[i]))
        /\ \A j \in 1..(i - 1) :
                TupleGreater(score(ranked_pool[i]), score(ranked_pool[j]))]

\* the exception choose_best_variant leaves with: the candidates comprehension
\* reads content_type of every variant, then max() scores the ranked pool
choose_best_variant_raises(materialized, ranked_pool) ==
    IF \E k \in 1..Len(materialized) :
            ~materialized[k].dict \/ "content_type" \in materialized[k].junk
    THEN "AttributeError"
    ELSE IF \E k \in 1..Len(ranked_pool) :
            ranked_pool[k].junk \cap {"bitrate", "height", "width"} # {}
    THEN "ValueError"
    ELSE "none"

choose_best_variant_unfiltered(variants) ==
    LET materialized == variants
        ranked_pool  == materialized
        raises       == choose_best_variant_raises(materialized, ranked_pool)
    IN  IF materialized = <<>> THEN [raised |-> "none", none |-> TRUE, best |-> NotADict]
        ELSE IF raises # "none" THEN [raised |-> raises, none |-> TRUE, best |-> NotADict]
        ELSE [raised |-> "none", none |-> FALSE, best |-> max_by_score(ranked_pool)]

\* none = TRUE is the result None
choose_best_variant(variants) ==
    LET materialized == variants
        candidates   == SelectSeq(materialized, LAMBDA v : content_type_lower(v) = CT_video_mp4)
        ranked_pool  == IF candidates # <<>> THEN candidates ELSE materialized
        raises       == choose_best_variant_raises(materialized, ranked_pool)
    IN  IF materialized = <<>> THEN [raised |-> "none", none |-> TRUE, best |-> NotADict]
        ELSE IF raises # "none" THEN [raised |-> raises, none |-> TRUE, best |-> NotADict]
        ELSE [raised |-> "none", none |-> FALSE, best |-> max_by_score(ranked_pool)]

MaxVariants == 3

VariantInit ==
    /\ cv_in \in
        LET \* the keys present and the values of bitrate, height, width
            numbers ==
                {[keys |-> {}, bitrate |-> 0, height |-> 0, width |-> 0],
                 [keys |-> {"bitrate"}, bitrate |-> 1, height |-> 0, width |-> 0],
                 [keys |-> {"bitrate", "height", "width"}, bitrate |-> 1, height |-> 0,
                  width |-> 0],
                 [keys |-> {"bitrate", "height"}, bitrate |-> 1, height |-> 1, width |-> 0],
                 [keys |-> {"bitrate", "height", "width"}, bitrate |-> 1, height |-> 1,
                  width |-> 1],
                 [keys |-> {"bitrate"}, bitrate |-> 2, height |-> 0, width |-> 0]}
            \* video/mp4, video/mP4, audio/mp4, video/webm
            content_types ==
                {CT_video_mp4, <<"v", "i", "d", "e", "o", "/", "m", "P", "4">>,
                 <<"a", "u", "d", "i", "o", "/", "m", "p", "4">>, CT_video_webm}
        IN  SeqsUpTo({Variant(n.keys \cup {"content_type", "url"}, {}, ct, n.bitrate,
                              n.height, n.width, "u") :
                        ct \in content_types, n \in numbers}, MaxVariants)
    /\ cv_pc = "call"
    /\ cv_result = [raised |-> "none", none |-> TRUE, best |-> NotADict]

VariantIdle ==
    /\ cv_in = <<>>
    /\ cv_pc = "idle"
    /\ cv_result = [raised |-> "none", none |-> TRUE, best |-> NotADict]

ChooseBestVariant ==
    /\ cv_pc = "call"
    /\ cv_result' = choose_best_variant(cv_in)
    /\ cv_pc' = IF cv_result'.raised = "none" THEN "returned" ELSE "raised"
    /\ UNCHANGED cv_in

(* Claim C12 *)

\* the content type is exactly video/mp4, whatever the letter case
ExactMp4(v) == "content_type" \in v.keys /\ Lower(v.content_type) = CT_video_mp4

\* the content type mentions mp4
MentionsMp4(v) == "content_type" \in v.keys /\ Contains(Lower(v.content_type), <<"m", "p", "4">>)

FieldOr0(v, key) == IF key \in v.keys THEN v[key] ELSE 0

RankKey(v) ==
    <<IF MentionsMp4(v) THEN 1 ELSE 0, FieldOr0(v, "bitrate"), FieldOr0(v, "height"),
      FieldOr0(v, "width")>>

RankedPool(variants) ==
    IF \E k \in 1..Len(variants) : ExactMp4(variants[k])
    THEN {k \in 1..Len(variants) : ExactMp4(variants[k])}
    ELSE 1..Len(variants)

\* C12: choose_best_variant ranks only the exactly-video/mp4 variants when
\* there is one and all variants otherwise, and returns the first variant of
\* that pool whose key (mentions mp4, bitrate, height, width), a missing
\* number counting as 0, no other variant of the pool exceeds.
C12_BestVariant ==
    (cv_pc # "call" /\ cv_in # <<>>) =>
        /\ cv_pc = "returned"
        /\ ~cv_result.none
        /\ \E i \in RankedPool(cv_in) :
            /\ cv_result.best = cv_in[i]
            /\ \A j \in RankedPool(cv_in) : ~TupleGreater(RankKey(cv_in[j]), RankKey(cv_in[i]))
            /\ \A j \in RankedPool(cv_in) : j < i => RankKey(cv_in[j]) # RankKey(cv_in[i])

\* an mp4 variant was chosen over a non-mp4 variant of higher bitrate, two
\* different variants of the pool tied for the greatest key, and the
\* variant returned lacks a numeric field
C12_Witness ==
    /\ cv_pc = "returned"
    /\ ExactMp4(cv_result.best)
    /\ \E k \in 1..Len(cv_in) :
            ~ExactMp4(cv_in[k]) /\ cv_in[k].bitrate > cv_result.best.bitrate
    /\ \E i, j \in RankedPool(cv_in) :
            /\ i < j
            /\ cv_in[i] # cv_in[j]
            /\ RankKey(cv_in[i]) = RankKey(cv_in[j])
            /\ cv_result.best = cv_in[i]
    /\ "height" \notin cv_result.best.keys

----------------------------------------------------------------------------
(* Social API extractor: cate/twitter_video.py, extract_with_vxtwitter     *)
(* A text is a sequence of tokens: the word "w", the blank " ", the        *)
(* apostrophe "'" and the character references "&amp;" and "&#39;".        *)

MaxText == 3

NoText == <<>>

\* html.unescape
unescape(text) ==
    [k \in 1..Len(text) |->
        IF text[k] = "&amp;" THEN "&" ELSE IF text[k] = "&#39;" THEN "'" ELSE text[k]]

RECURSIVE lstrip(_)
lstrip(text) == IF text # <<>> /\ Head(text) = " " THEN lstrip(Tail(text)) ELSE text
RECURSIVE rstrip(_)
rstrip(text) ==
    IF text # <<>> /\ text[Len(text)] = " "
    THEN rstrip(SubSeq(text, 1, Len(text) - 1)) ELSE text
\* str.strip()
strip(text) == lstrip(rstrip(text))

\* META_CONTENT_RE on a tag written content="value": group msg is the longest
\* run of characters that are neither ' nor ", and the run must not be empty
\* (matched = FALSE: the pattern does not match)
META_CONTENT_RE(value) ==
    LET stops == {k \in 1..Len(value) : value[k] = "'"}
        n     == IF stops = {} THEN Len(value)
                 ELSE (CHOOSE k \in stops : \A m \in stops : k <= m) - 1
    IN  [matched |-> n > 0, msg |-> SubSeq(value, 1, n)]

\* the parts of a body the patterns of _extract_html_error_message look at:
\* the og:description meta tag and its content attribute, the <title>
\* element, the first non-blank line
HtmlPayload(meta, value, title, title_text, line) ==
    [meta |-> meta, value |-> value, title |-> title, title_text |-> title_text,
     line |-> line]

\* found = FALSE is None
html_error_message(payload) ==
    LET content == META_CONTENT_RE(payload.value)
        message == strip(unescape(content.msg))
        title   == strip(unescape(payload.title_text))
        line    == unescape(strip(payload.line))
    IN  IF payload.meta /\ content.matched /\ message # NoText
        THEN [found |-> TRUE, text |-> message]
        ELSE IF payload.title /\ title # NoText
        THEN [found |-> TRUE, text |-> title]
        ELSE IF line # NoText
        THEN [found |-> TRUE, text |-> line]
        ELSE [found |-> FALSE, text |-> NoText]

\* found = FALSE is None
describe_tweet_unavailability(answer) ==
    IF ~answer.reachable \/ ~answer.json THEN [found |-> FALSE, text |-> NoText]
    ELSE IF strip(answer.tombstone) # NoText
    THEN [found |-> TRUE, text |-> strip(answer.tombstone)]
    ELSE IF strip(answer.message) # NoText
    THEN [found |-> TRUE, text |-> strip(answer.message)]
    ELSE [found |-> FALSE, text |-> NoText]

NoHtml == HtmlPayload(FALSE, NoText, FALSE, NoText, NoText)
NoStatus == [reachable |-> FALSE, json |-> FALSE, tombstone |-> NoText, message |-> NoText]

StatusDetail(text) == <<"tweet status: ">> \o text

NoException == [type |-> "none", prefix |-> "none"]

MaxMedia == 2

\* one entry of a media container. dict is FALSE for an entry that is not a
\* JSON object; keys are the keys the object has; junk are the keys whose
\* value has the wrong type (a number for type, a string for variants, a
\* non-numeric string for height); a key the object lacks holds "" or <<>>.
MediaObject(keys, junk, type, variants, url, id) ==
    [dict |-> TRUE, keys |-> keys, junk |-> junk, type |-> type, variants |-> variants,
     url |-> url, id |-> id]

\* ExtractedVideo; a field that is None holds 0
ExtractedVideo(identifier, url, bitrate, height, width) ==
    [identifier |-> identifier, url |-> url, bitrate |-> bitrate, height |-> height,
     width |-> width]

NoVideo == ExtractedVideo("", "", 0, 0, 0)

\* none = TRUE is the result None
extract_videos_from_media(media_obj) ==
    LET has_variants == /\ "variants" \in media_obj.keys
                        /\ "variants" \notin media_obj.junk
                        /\ media_obj.variants # <<>>
        chosen       == choose_best_variant(media_obj.variants)
        \* f"{tweet_id}-{media_obj.get('id', 'media')}"
        identifier   == IF "id" \in media_obj.keys THEN media_obj.id ELSE "media"
        has_url      == /\ "url" \in media_obj.keys
                        /\ "url" \notin media_obj.junk
                        /\ media_obj.url # ""
    IN  IF has_variants /\ chosen.raised # "none"
        THEN [raised |-> chosen.raised, none |-> TRUE, item |-> NoVideo]
        ELSE IF has_variants /\ ~chosen.none /\ "url" \in chosen.best.keys
                /\ chosen.best.url # ""
        THEN [raised |-> "none", none |-> FALSE,
              item |-> ExtractedVideo(identifier, chosen.best.url,
                                      int_or_0(chosen.best, "bitrate"),
                                      int_or_0(chosen.best, "height"),
                                      int_or_0(chosen.best, "width"))]
        ELSE IF has_url /\ "height" \in media_obj.junk
        THEN [raised |-> "ValueError", none |-> TRUE, item |-> NoVideo]
        ELSE IF has_url
        THEN [raised |-> "none", none |-> FALSE,
              item |-> ExtractedVideo(identifier, media_obj.url, 0, 0, 0)]
        ELSE [raised |-> "none", none |-> TRUE, item |-> NoVideo]

\* one pass of the body of "for media_obj in ...": skip, raise, or an item
media_step(media_obj) ==
    IF ~media_obj.dict THEN [raised |-> "none", none |-> TRUE, item |-> NoVideo]
    ELSE IF "type" \in media_obj.junk
    THEN [raised |-> "AttributeError", none |-> TRUE, item |-> NoVideo]
    ELSE IF LET type == IF "type" \in media_obj.keys THEN media_obj.type ELSE ""
            IN  \* (media_obj.get("type") or "").lower()
                (IF type = "Video" THEN "video" ELSE type) \notin {"video", "gif"}
    THEN [raised |-> "none", none |-> TRUE, item |-> NoVideo]
    ELSE extract_videos_from_media(media_obj)

\* the for loop over one container: the items appended, or the first exception
RECURSIVE media_loop(_, _)
media_loop(container, videos) ==
    IF container = <<>> THEN [raised |-> "none", videos |-> videos]
    ELSE LET step == media_step(Head(container))
         IN  IF step.raised # "none" THEN [raised |-> step.raised, videos |-> videos]
             ELSE media_loop(Tail(container),
                             IF step.none THEN videos ELSE Append(videos, step.item))

\* the enumerate loop over mediaURLs; an entry is a string (str = TRUE) or not
RECURSIVE media_urls_loop(_, _, _)
media_urls_loop(media_urls, idx, videos) ==
    IF idx > Len(media_urls) THEN videos
    ELSE media_urls_loop(media_urls, idx + 1,
            IF media_urls[idx].str /\ media_urls[idx].url # ""
            THEN Append(videos, ExtractedVideo(<<"url-0", "url-1", "url-2", "url-3">>[idx],
                                               media_urls[idx].url, 0, 0, 0))
            ELSE videos)

\* data.get(key) or []: the key is absent (or holds a falsy value), holds a
\* truthy value that is not a list, or holds a list
Container(kind, items) == [kind |-> kind, items |-> items]
AbsentContainer == Container("absent", <<>>)

Containers(objects) ==
    {AbsentContainer, Container("not_list", <<>>)}
    \cup {Container("list", items) : items \in SeqsUpTo(objects, MaxMedia)}

\* the value json.loads returns: a JSON object with the three containers, or
\* another JSON value (dict = FALSE)
Data(media_extended, media, mediaURLs) ==
    [dict |-> TRUE, media_extended |-> media_extended, media |-> media,
     mediaURLs |-> mediaURLs]
NoData == Data(AbsentContainer, AbsentContainer, AbsentContainer)

\* url_ok      TWEET_URL_RE matches the URL
\* request_ok  the GET returns without a RequestException
\* json_type   "application/json" is in the lower-cased Content-Type header
\* parses      json.loads(text_payload) succeeds
\* html        the body as _extract_html_error_message sees it
\* status      the answer of the status endpoint
\* data        the value json.loads returns
VxInput(url_ok, request_ok, json_type, parses, html, status, data) ==
    [url_ok |-> url_ok, request_ok |-> request_ok, json_type |-> json_type,
     parses |-> parses, html |-> html, status |-> status, data |-> data]

VxInit ==
    /\ vx_in \in
        LET titles == {[present |-> FALSE, text |-> NoText], [present |-> TRUE, text |-> NoText],
                       [present |-> TRUE, text |-> <<" ">>],
                       [present |-> TRUE, text |-> <<"w", "&amp;">>]}
            first_lines == {NoText, <<" ", "w">>}
            htmls ==
                {HtmlPayload(TRUE, v, t.present, t.text, l) :
                    v \in SeqsUpTo({"w", " ", "'", "&amp;", "&#39;"}, MaxText),
                    t \in titles, l \in first_lines}
                \cup {HtmlPayload(FALSE, NoText, t.present, t.text, l) :
                    t \in {[present |-> FALSE, text |-> NoText],
                           [present |-> TRUE, text |-> <<"w", "&amp;">>]},
                    l \in first_lines}
            \* the status endpoint is unreachable, answers a non-JSON body, or a
            \* JSON object with a tombstone text and a message (NoText: no key)
            statuses ==
                {NoStatus, [NoStatus EXCEPT !.reachable = TRUE]}
                \cup [reachable : {TRUE}, json : {TRUE}, tombstone : {NoText, <<" ">>, <<"w">>},
                      message : {NoText, <<"w", " ">>}]
            video_variants ==
                MediaObject({"type", "variants", "id"}, {}, "video",
                            <<Variant(VariantKeys, {}, CT_video_webm, 2, 1, 1, "v-webm"),
                              Variant(VariantKeys, {}, CT_video_mp4, 1, 1, 1, "v-mp4")>>, "", "1")
            gif_url == MediaObject({"type", "url", "id"}, {}, "gif", <<>>, "g", "2")
            photo == MediaObject({"type", "url", "id"}, {}, "photo", <<>>, "p", "3")
            no_url == MediaObject({"type", "id"}, {}, "video", <<>>, "", "4")
            not_a_dict == [no_url EXCEPT !.dict = FALSE, !.keys = {}, !.type = "", !.id = ""]
            bitrate_junk ==
                MediaObject({"type", "variants", "id"}, {}, "video",
                            <<Variant(VariantKeys, {"bitrate"}, CT_video_mp4, 0, 1, 1, "v-junk")>>,
                            "", "5")
            Video_url == MediaObject({"type", "url"}, {}, "Video", <<>>, "v", "")
            type_junk == MediaObject({"type", "url", "id"}, {"type"}, "", <<>>, "j", "6")
            datas ==
                {[NoData EXCEPT !.dict = FALSE]}
                \cup {Data(e, m, u) :
                        e \in Containers({video_variants, gif_url, photo, no_url, not_a_dict,
                                          bitrate_junk}),
                        m \in Containers({gif_url, Video_url, type_junk}),
                        u \in Containers({[str |-> TRUE, url |-> "m"], [str |-> TRUE, url |-> ""],
                                          [str |-> FALSE, url |-> ""]})}
        IN  {VxInput(FALSE, FALSE, FALSE, FALSE, NoHtml, NoStatus, NoData),
             VxInput(TRUE, FALSE, FALSE, FALSE, NoHtml, NoStatus, NoData)}
            \cup {VxInput(TRUE, TRUE, j, FALSE, h, s, NoData) :
                    j \in BOOLEAN, h \in htmls, s \in statuses}
            \cup {VxInput(TRUE, TRUE, TRUE, TRUE, NoHtml, NoStatus, d) : d \in datas}
    /\ vx_pc = "call"
    /\ vx_details = <<>>
    /\ vx_videos = <<>>
    /\ vx_consulted = <<>>
    /\ vx_exc = NoException

VxIdle ==
    /\ vx_in = VxInput(FALSE, FALSE, FALSE, FALSE, NoHtml, NoStatus, NoData)
    /\ vx_pc = "idle"
    /\ vx_details = <<>>
    /\ vx_videos = <<>>
    /\ vx_consulted = <<>>
    /\ vx_exc = NoException

\* match = TWEET_URL_RE.match(url)
VxMatchUrl ==
    /\ vx_pc = "call"
    /\ IF vx_in.url_ok
       THEN vx_pc' = "request" /\ UNCHANGED vx_exc
       ELSE /\ vx_pc' = "raised"
            /\ vx_exc' = [type |-> "ValueError", prefix |-> "URL does not look like"]
    /\ UNCHANGED <<vx_in, vx_details, vx_videos, vx_consulted>>

\* requests.get(api_url, ...) and raise_for_status()
VxRequest ==
    /\ vx_pc = "request"
    /\ IF vx_in.request_ok
       THEN vx_pc' = "content_type" /\ UNCHANGED vx_exc
       ELSE /\ vx_pc' = "raised"
            /\ vx_exc' = [type |-> "RuntimeError", prefix |-> "Request to vxtwitter failed"]
    /\ UNCHANGED <<vx_in, vx_details, vx_videos, vx_consulted>>

\* if "application/json" not in content_type: the first detail
VxNonJson ==
    /\ vx_pc = "content_type"
    /\ ~vx_in.json_type
    /\ LET message == html_error_message(vx_in.html)
       IN  vx_details' = << IF message.found THEN message.text
                             ELSE <<"unexpected non-JSON response">> >>
    /\ vx_pc' = "status_lookup"
    /\ UNCHANGED <<vx_in, vx_videos, vx_consulted, vx_exc>>

\* except json.JSONDecodeError: the first detail
VxJSONDecodeError ==
    /\ vx_pc = "content_type"
    /\ vx_in.json_type
    /\ ~vx_in.parses
    /\ LET message == html_error_message(vx_in.html)
       IN  vx_details' = << IF message.found THEN message.text
                             ELSE <<"unexpected payload starting with">> >>
    /\ vx_pc' = "status_lookup"
    /\ UNCHANGED <<vx_in, vx_videos, vx_consulted, vx_exc>>

\* tombstone = _describe_tweet_unavailability(tweet_id), then the raise
VxStatusLookup ==
    /\ vx_pc = "status_lookup"
    /\ LET tombstone == describe_tweet_unavailability(vx_in.status)
       IN  vx_details' = IF tombstone.found
                         THEN Append(vx_details, StatusDetail(tombstone.text))
                         ELSE vx_details
    /\ vx_exc' = [type |-> "RuntimeError",
                  prefix |-> IF vx_in.json_type THEN "vxtwitter JSON parse error"
                             ELSE "vxtwitter error"]
    /\ vx_pc' = "raised"
    /\ UNCHANGED <<vx_in, vx_videos, vx_consulted>>

\* data = json.loads(text_payload) returns
VxLoads ==
    /\ vx_pc = "content_type"
    /\ vx_in.json_type
    /\ vx_in.parses
    /\ vx_pc' = "media_extended"
    /\ UNCHANGED <<vx_in, vx_details, vx_videos, vx_consulted, vx_exc>>

VxMediaContainer_no_return(key, container, next) ==
    IF ~vx_in.data.dict
    THEN /\ vx_exc' = [type |-> "AttributeError", prefix |-> "get"]
         /\ vx_pc' = "raised"
         /\ UNCHANGED <<vx_videos, vx_consulted>>
    ELSE LET loop == media_loop(IF container.kind = "list" THEN container.items ELSE <<>>,
                                vx_videos)
         IN  /\ vx_consulted' = Append(vx_consulted, key)
             /\ vx_videos' = loop.videos
             /\ IF loop.raised # "none"
                THEN vx_exc' = [type |-> loop.raised, prefix |-> key] /\ vx_pc' = "raised"
                ELSE /\ vx_pc' = next
                     /\ UNCHANGED vx_exc

\* one container of media objects: data.get(key) or [], the isinstance test,
\* the for loop and "if videos: return videos"; next is where the code goes
\* when videos is still empty
VxMediaContainer(key, container, next) ==
    IF ~vx_in.data.dict
    THEN /\ vx_exc' = [type |-> "AttributeError", prefix |-> "get"]
         /\ vx_pc' = "raised"
         /\ UNCHANGED <<vx_videos, vx_consulted>>
    ELSE LET loop == media_loop(IF container.kind = "list" THEN container.items ELSE <<>>,
                                vx_videos)
         IN  /\ vx_consulted' = Append(vx_consulted, key)
             /\ vx_videos' = loop.videos
             /\ IF loop.raised # "none"
                THEN vx_exc' = [type |-> loop.raised, prefix |-> key] /\ vx_pc' = "raised"
                ELSE /\ vx_pc' = IF loop.videos # <<>> THEN "returned" ELSE next
                     /\ UNCHANGED vx_exc

\* media_ext = data.get("media_extended") or [] ... if videos: return videos
VxMediaExtended ==
    /\ vx_pc = "media_extended"
    /\ VxMediaContainer("media_extended", vx_in.data.media_extended, "media")
    /\ UNCHANGED <<vx_in, vx_details>>

\* media = data.get("media") or [] ... if videos: return videos
VxMedia ==
    /\ vx_pc = "media"
    /\ VxMediaContainer("media", vx_in.data.media, "mediaURLs")
    /\ UNCHANGED <<vx_in, vx_details>>

\* media_urls = data.get("mediaURLs") or [] ... return videos
VxMediaUrls ==
    /\ vx_pc = "mediaURLs"
    /\ vx_consulted' = Append(vx_consulted, "mediaURLs")
    /\ vx_videos' = media_urls_loop(IF vx_in.data.mediaURLs.kind = "list"
                                    THEN vx_in.data.mediaURLs.items ELSE <<>>, 1, vx_videos)
    /\ vx_pc' = "returned"
    /\ UNCHANGED <<vx_in, vx_details, vx_exc>>

(* Claims C11, C13, C19 *)

\* the text the message is derived from: the decoded content of the
\* og:description tag when there is one and it is not blank, else the
\* <title>, else the first non-blank line
DerivedText(html) ==
    IF html.meta /\ strip(unescape(html.value)) # NoText
    THEN [found |-> TRUE, text |-> strip(unescape(html.value))]
    ELSE IF html.title /\ strip(unescape(html.title_text)) # NoText
    THEN [found |-> TRUE, text |-> strip(unescape(html.title_text))]
    ELSE IF strip(unescape(html.line)) # NoText
    THEN [found |-> TRUE, text |-> strip(unescape(html.line))]
    ELSE [found |-> FALSE, text |-> NoText]

NonJsonAnswer == vx_in.url_ok /\ vx_in.request_ok /\ ~vx_in.json_type

\* C11: on a non-JSON content type extract_with_vxtwitter never returns; it
\* raises the "vxtwitter error" whose first detail is the text derived from
\* og:description, else <title>, else the first non-blank line, and the
\* status lookup adds at most one "tweet status" detail after it.
C11_NonJsonIsApiError ==
    NonJsonAnswer =>
        /\ vx_pc \in {"call", "request", "content_type", "status_lookup", "raised"}
        /\ vx_pc = "raised" =>
            /\ vx_exc = [type |-> "RuntimeError", prefix |-> "vxtwitter error"]
            /\ Len(vx_details) \in {1, 2}
            /\ DerivedText(vx_in.html).found => vx_details[1] = DerivedText(vx_in.html).text
            /\ Len(vx_details) = 2 =>
                \E text \in {strip(vx_in.status.tombstone), strip(vx_in.status.message)} :
                    text # NoText /\ vx_details[2] = StatusDetail(text)

JsonAnswer == vx_in.url_ok /\ vx_in.request_ok /\ vx_in.json_type /\ vx_in.parses

\* C13: when the content type is JSON and the body parses,
\* extract_with_vxtwitter never raises, whatever the shape of the value.
C13_JsonNeverRaises == JsonAnswer => vx_pc # "raised"

\* the video/gif items one container yields, in the container's order
Yield(container) ==
    IF container.kind = "list" THEN media_loop(container.items, <<>>).videos ELSE <<>>

UrlYield(container) ==
    IF container.kind = "list" THEN media_urls_loop(container.items, 1, <<>>) ELSE <<>>

\* C19: the result is the items, in order, of the first of media_extended,
\* media, mediaURLs that yields an item, and a container is consulted only
\* when every container before it yielded nothing.
C19_ContainerPriority ==
    vx_pc = "returned" =>
        LET e == Yield(vx_in.data.media_extended)
            m == Yield(vx_in.data.media)
            u == UrlYield(vx_in.data.mediaURLs)
        IN  /\ vx_videos = IF e # <<>> THEN e ELSE IF m # <<>> THEN m ELSE u
            /\ vx_consulted = IF e # <<>> THEN <<"media_extended">>
                              ELSE IF m # <<>> THEN <<"media_extended", "media">>
                              ELSE <<"media_extended", "media", "mediaURLs">>

\* media_extended held entries and yielded nothing, media yielded two
\* different items, and mediaURLs, which held a URL, was left alone
C19_Witness ==
    /\ vx_pc = "returned"
    /\ vx_in.data.media_extended.items # <<>>
    /\ Yield(vx_in.data.media_extended) = <<>>
    /\ Len(vx_videos) = 2
    /\ vx_videos[1] # vx_videos[2]
    /\ vx_videos = Yield(vx_in.data.media)
    /\ UrlYield(vx_in.data.mediaURLs) # <<>>

----------------------------------------------------------------------------
(* Batch drivers and dispatch sink: downie_dispatch.main and send_to_downie, *)
(* dry_run_from_csv.evaluate_urls, archive_from_csv.main and dispatch_media  *)
(* A resolved link is a text as above: "m" and "n" are two media URLs.       *)

MaxUrls == 2
MaxLinks == 2

DOWNIE_APP_CANDIDATES == <<"Downie 4", "Downie">>

\* what extract_links(url, strategy, cookies) can do: a youtube URL is its own
\* link; the social extractor raises or returns different URLs, of which the
\* empty ones are dropped; the page extractor is called with a cookies argument it does
\* not take
extract_links(url, strategy) ==
    IF strategy = "youtube" THEN {[raised |-> FALSE, links |-> <<url>>]}
    ELSE IF strategy = "twitter"
    THEN {[raised |-> TRUE, links |-> <<>>]}
         \cup {[raised |-> FALSE, links |-> l] :
                l \in {s \in SeqsUpTo({<<"m">>, <<" ", "m">>, <<"n">>, <<" ">>}, MaxLinks) :
                            \A j, k \in 1..Len(s) : j # k => s[j] # s[k]}}
    ELSE {[raised |-> TRUE, links |-> <<>>]}

\* append_processed(state, feed_url, entries) on the feed's list
append_processed(existing, entries) ==
    existing \o SelectSeq(entries, LAMBDA e : \A k \in 1..Len(existing) : existing[k] # e)

BatchInit ==
    /\ bt_in \in
        LET \* https://youtu.be/a, https://x.com/1, https://x.com/2, https://e.org/a, ""
            https == <<"h", "t", "t", "p", "s", ":", "/", "/">>
            urls == {https \o <<"y", "o", "u", "t", "u", ".", "b", "e", "/", "a">>,
                     https \o <<"x", ".", "c", "o", "m", "/", "1">>,
                     https \o <<"x", ".", "c", "o", "m", "/", "2">>,
                     https \o <<"e", ".", "o", "r", "g", "/", "a">>,
                     NoStr}
        IN  {i \in [driver : {"downie_dispatch.main", "archive_from_csv.main"},
                    dry_run : BOOLEAN, use_cookie_update : BOOLEAN,
                    urls : SeqsUpTo(urls, MaxUrls)] :
                /\ i.driver = "downie_dispatch.main" => ~i.dry_run
                /\ i.driver = "archive_from_csv.main" => ~i.use_cookie_update
                /\ \A j, k \in 1..Len(i.urls) : j # k => i.urls[j] # i.urls[k]
                /\ i.driver = "archive_from_csv.main" => i.urls # <<>>}
    /\ bt_pc = "classify"
    /\ bt_idx = 1
    /\ bt_strategy = "none"
    /\ bt_loaded = FALSE
    /\ bt_cookies = "None"
    /\ bt_resolved = <<>>
    /\ bt_successes = <<>>
    /\ bt_failures = <<>>
    /\ bt_extracted = <<>>
    /\ bt_processed = <<>>
    /\ bt_failures_file = <<>>
    /\ bt_links = <<>>
    /\ bt_link = 1
    /\ bt_seen = {}
    /\ bt_app = 1
    /\ bt_attempts = <<>>
    /\ bt_handled = <<>>
    /\ bt_exit = "running"
    /\ bt_passed = [strategy |-> "none", cookies |-> None]

BatchIdle ==
    /\ bt_in = [driver |-> "downie_dispatch.main", dry_run |-> FALSE,
                use_cookie_update |-> FALSE, urls |-> <<>>]
    /\ bt_pc = "idle"
    /\ bt_idx = 1
    /\ bt_strategy = "none"
    /\ bt_loaded = FALSE
    /\ bt_cookies = "None"
    /\ bt_resolved = <<>>
    /\ bt_successes = <<>>
    /\ bt_failures = <<>>
    /\ bt_extracted = <<>>
    /\ bt_processed = <<>>
    /\ bt_failures_file = <<>>
    /\ bt_links = <<>>
    /\ bt_link = 1
    /\ bt_seen = {}
    /\ bt_app = 1
    /\ bt_attempts = <<>>
    /\ bt_handled = <<>>
    /\ bt_exit = "running"
    /\ bt_passed = [strategy |-> "none", cookies |-> None]

bt_lists == <<bt_successes, bt_failures, bt_extracted>>
bt_files == <<bt_processed, bt_failures_file>>
bt_sink == <<bt_links, bt_link, bt_seen, bt_app, bt_attempts, bt_handled>>

BatchContinue_break(reason) ==
    /\ bt_idx' = Len(bt_in.urls) + 1
    /\ bt_pc' = "classify"
    /\ IF bt_in.driver = "downie_dispatch.main"
       THEN bt_exit' = "1" /\ UNCHANGED bt_failures
       ELSE /\ bt_failures' = Append(bt_failures, [url |-> bt_in.urls[bt_idx], reason |-> reason])
            /\ UNCHANGED bt_exit

\* "continue" after a failure: downie_dispatch.main sets exit_code = 1,
\* evaluate_urls appends to failures
BatchContinue(reason) ==
    /\ bt_idx' = bt_idx + 1
    /\ bt_pc' = "classify"
    /\ IF bt_in.driver = "downie_dispatch.main"
       THEN bt_exit' = "1" /\ UNCHANGED bt_failures
       ELSE /\ bt_failures' = Append(bt_failures, [url |-> bt_in.urls[bt_idx], reason |-> reason])
            /\ UNCHANGED bt_exit

\* for url in urls: strategy = classify_url(url)
BatchClassify ==
    /\ bt_pc = "classify"
    /\ bt_idx <= Len(bt_in.urls)
    /\ bt_strategy' = classify_url(bt_in.urls[bt_idx])
    /\ IF bt_strategy' = "DispatchError"
       THEN BatchContinue("classify")
       ELSE bt_pc' = "cookies" /\ UNCHANGED <<bt_idx, bt_failures, bt_exit>>
    /\ UNCHANGED <<bt_in, bt_passed, bt_loaded, bt_cookies, bt_resolved, bt_successes,
                   bt_extracted, bt_files, bt_sink>>

\* the loop over the input URLs ends: downie_dispatch.main returns exit_code,
\* evaluate_urls returns to archive_from_csv.main
BatchLoopEnd ==
    /\ bt_pc = "classify"
    /\ bt_idx > Len(bt_in.urls)
    /\ IF bt_in.driver = "downie_dispatch.main"
       THEN bt_pc' = "done" /\ bt_exit' = (IF bt_exit = "1" THEN "1" ELSE "0")
       ELSE bt_pc' = "evaluated" /\ UNCHANGED bt_exit
    /\ UNCHANGED <<bt_in, bt_passed, bt_idx, bt_strategy, bt_loaded, bt_cookies, bt_resolved,
                   bt_lists, bt_files, bt_sink>>

BatchCookies_reload_when_none ==
    /\ bt_pc = "cookies"
    /\ IF bt_strategy = "twitter" /\ bt_cookies = "None"
       THEN /\ bt_cookies' \in {"None", "jar"}
            /\ bt_loaded' = TRUE
            /\ bt_resolved' = Append(bt_resolved, bt_idx)
       ELSE UNCHANGED <<bt_cookies, bt_loaded, bt_resolved>>
    /\ bt_pc' = "extract"
    /\ UNCHANGED <<bt_in, bt_passed, bt_idx, bt_strategy, bt_lists, bt_files, bt_sink, bt_exit>>

\* if strategy == "twitter" and not twitter_cookies_loaded:
\* resolve_twitter_cookies returns a jar or None (it catches every exception)
BatchCookies ==
    /\ bt_pc = "cookies"
    /\ IF bt_strategy = "twitter" /\ ~bt_loaded
       THEN /\ bt_cookies' \in {"None", "jar"}
            /\ bt_loaded' = TRUE
            /\ bt_resolved' = Append(bt_resolved, bt_idx)
       ELSE UNCHANGED <<bt_cookies, bt_loaded, bt_resolved>>
    /\ bt_pc' = "extract"
    /\ UNCHANGED <<bt_in, bt_passed, bt_idx, bt_strategy, bt_lists, bt_files, bt_sink, bt_exit>>

\* the cookies argument and links = extract_links(url, strategy, cookies),
\* "if not links", and what follows: downie_dispatch.main asks the cookie
\* fetcher, when it has one, for the cookies of the URL's domain, merges them
\* over twitter_cookies for a twitter URL, and goes on to send_to_downie(links);
\* evaluate_urls passes twitter_cookies as it stands and records the success
BatchExtract ==
    /\ bt_pc = "extract"
    /\ \E domain_cookies \in IF bt_in.use_cookie_update
                              THEN {None, Some(DictOf({"b"}, "domain"))} ELSE {None} :
        LET twitter_cookies == IF bt_cookies = "jar" THEN Some(DictOf({"a"}, "x"))
                               ELSE None
        IN  bt_passed' =
                [strategy |-> bt_strategy,
                 cookies |-> IF bt_in.driver # "downie_dispatch.main" THEN twitter_cookies
                             ELSE IF bt_strategy = "twitter"
                             THEN merge_cookie_dicts(twitter_cookies, domain_cookies)
                             ELSE domain_cookies]
    /\ \E out \in extract_links(bt_in.urls[bt_idx], bt_strategy) :
        IF out.raised \/ out.links = <<>>
        THEN /\ BatchContinue(IF out.raised THEN "extract" ELSE "no video links")
             /\ UNCHANGED <<bt_successes, bt_extracted, bt_links, bt_link, bt_seen>>
        ELSE /\ bt_extracted' = (bt_in.urls[bt_idx] :> out.links) @@ bt_extracted
             /\ IF bt_in.driver = "downie_dispatch.main"
                THEN /\ bt_pc' = "send"
                     /\ bt_links' = out.links
                     /\ bt_link' = 1
                     /\ bt_seen' = {}
                     /\ UNCHANGED <<bt_idx, bt_successes>>
                ELSE /\ bt_successes' = Append(bt_successes, bt_in.urls[bt_idx])
                     /\ bt_idx' = bt_idx + 1
                     /\ bt_pc' = "classify"
                     /\ UNCHANGED <<bt_links, bt_link, bt_seen>>
             /\ UNCHANGED <<bt_failures, bt_exit>>
    /\ UNCHANGED <<bt_in, bt_strategy, bt_loaded, bt_cookies, bt_resolved, bt_files,
                   bt_app, bt_attempts, bt_handled>>

\* archive_from_csv.main after evaluate_urls: append_processed and save_state,
\* write_failures, then dispatch_media is entered or main returns
BatchPersist ==
    /\ bt_pc = "evaluated"
    /\ bt_processed' = IF bt_in.dry_run THEN bt_processed
                       ELSE append_processed(bt_processed, bt_successes)
    /\ bt_failures_file' = bt_failures_file \o bt_failures
    /\ IF ~bt_in.dry_run /\ bt_successes # <<>>
       THEN bt_pc' = "dispatch" /\ bt_idx' = 1 /\ UNCHANGED bt_exit
       ELSE /\ bt_pc' = "done"
            /\ bt_exit' = (IF bt_failures = <<>> THEN "0" ELSE "1")
            /\ UNCHANGED bt_idx
    /\ UNCHANGED <<bt_in, bt_passed, bt_strategy, bt_loaded, bt_cookies, bt_resolved, bt_lists,
                   bt_sink>>

\* dispatch_media: for links in media_map.values(), and the return of main
BatchDispatchMedia ==
    /\ bt_pc = "dispatch"
    /\ IF bt_idx > Len(bt_successes)
       THEN /\ bt_pc' = "done"
            /\ bt_exit' = (IF bt_failures = <<>> THEN "0" ELSE "1")
            /\ UNCHANGED <<bt_idx, bt_links, bt_link, bt_seen>>
       ELSE IF bt_extracted[bt_successes[bt_idx]] = <<>>
       THEN /\ bt_idx' = bt_idx + 1
            /\ UNCHANGED <<bt_pc, bt_exit, bt_links, bt_link, bt_seen>>
       ELSE /\ bt_pc' = "send"
            /\ bt_links' = bt_extracted[bt_successes[bt_idx]]
            /\ bt_link' = 1
            /\ bt_seen' = {}
            /\ UNCHANGED <<bt_idx, bt_exit>>
    /\ UNCHANGED <<bt_in, bt_passed, bt_strategy, bt_loaded, bt_cookies, bt_resolved, bt_lists,
                   bt_files, bt_app, bt_attempts, bt_handled>>

\* send_to_downie: for url in urls, up to the first subprocess.run; past the
\* last url the call returns to the loop of its driver
SendNext ==
    /\ bt_pc = "send"
    /\ IF bt_link > Len(bt_links)
       THEN /\ bt_idx' = bt_idx + 1
            /\ bt_pc' = IF bt_in.driver = "downie_dispatch.main" THEN "classify" ELSE "dispatch"
            /\ UNCHANGED <<bt_link, bt_seen, bt_app, bt_attempts>>
       ELSE LET normalized == strip(bt_links[bt_link])
            IN  IF normalized = NoText \/ normalized \in bt_seen
                THEN /\ bt_link' = bt_link + 1
                     /\ UNCHANGED <<bt_idx, bt_pc, bt_seen, bt_app, bt_attempts>>
                ELSE /\ bt_seen' = bt_seen \cup {normalized}
                     /\ bt_app' = 1
                     /\ bt_attempts' = <<>>
                     /\ bt_pc' = "open"
                     /\ UNCHANGED <<bt_idx, bt_link>>
    /\ UNCHANGED <<bt_in, bt_passed, bt_strategy, bt_loaded, bt_cookies, bt_resolved, bt_lists,
                   bt_files, bt_links, bt_handled, bt_exit>>

SendOpen_no_break ==
    /\ bt_pc = "open"
    /\ \E returncode \in {0, 1} :
        LET attempts == Append(bt_attempts, [app |-> DOWNIE_APP_CANDIDATES[bt_app],
                                             returncode |-> returncode])
            handled(ok) ==
                Append(bt_handled,
                       [input |-> IF bt_in.driver = "downie_dispatch.main"
                                  THEN bt_in.urls[bt_idx] ELSE bt_successes[bt_idx],
                        url |-> strip(bt_links[bt_link]), ok |-> ok])
        IN  /\ bt_attempts' = attempts
            /\ IF bt_app < Len(DOWNIE_APP_CANDIDATES)
               THEN /\ bt_app' = bt_app + 1
                    /\ UNCHANGED <<bt_pc, bt_link, bt_handled, bt_idx, bt_exit>>
               ELSE IF \E k \in 1..Len(attempts) : attempts[k].returncode = 0
               THEN /\ bt_handled' = handled(TRUE)
                    /\ bt_link' = bt_link + 1
                    /\ bt_pc' = "send"
                    /\ UNCHANGED <<bt_app, bt_idx, bt_exit>>
               ELSE /\ bt_handled' = handled(FALSE)
                    /\ IF bt_in.driver = "downie_dispatch.main"
                       THEN bt_exit' = "1" /\ bt_idx' = bt_idx + 1 /\ bt_pc' = "classify"
                       ELSE bt_exit' = "DispatchError" /\ bt_pc' = "crashed" /\ UNCHANGED bt_idx
                    /\ UNCHANGED <<bt_app, bt_link>>
    /\ UNCHANGED <<bt_in, bt_passed, bt_strategy, bt_loaded, bt_cookies, bt_resolved, bt_lists,
                   bt_files, bt_links, bt_seen>>

\* send_to_downie: one subprocess.run(["open", "-g", "-a", app, normalized])
\* of "for app in DOWNIE_APP_CANDIDATES", the break, and the else clause that
\* raises DispatchError: downie_dispatch.main catches it, archive_from_csv.main
\* does not
SendOpen ==
    /\ bt_pc = "open"
    /\ \E returncode \in {0, 1} :
        LET attempts == Append(bt_attempts, [app |-> DOWNIE_APP_CANDIDATES[bt_app],
                                             returncode |-> returncode])
            handled(ok) ==
                Append(bt_handled,
                       [input |-> IF bt_in.driver = "downie_dispatch.main"
                                  THEN bt_in.urls[bt_idx] ELSE bt_successes[bt_idx],
                        url |-> strip(bt_links[bt_link]), ok |-> ok])
        IN  /\ bt_attempts' = attempts
            /\ IF returncode = 0
               THEN /\ bt_handled' = handled(TRUE)
                    /\ bt_link' = bt_link + 1
                    /\ bt_pc' = "send"
                    /\ UNCHANGED <<bt_app, bt_idx, bt_exit>>
               ELSE IF bt_app < Len(DOWNIE_APP_CANDIDATES)
               THEN /\ bt_app' = bt_app + 1
                    /\ UNCHANGED <<bt_pc, bt_link, bt_handled, bt_idx, bt_exit>>
               ELSE /\ bt_handled' = handled(FALSE)
                    /\ IF bt_in.driver = "downie_dispatch.main"
                       THEN bt_exit' = "1" /\ bt_idx' = bt_idx + 1 /\ bt_pc' = "classify"
                       ELSE bt_exit' = "DispatchError" /\ bt_pc' = "crashed" /\ UNCHANGED bt_idx
                    /\ UNCHANGED <<bt_app, bt_link>>
    /\ UNCHANGED <<bt_in, bt_passed, bt_strategy, bt_loaded, bt_cookies, bt_resolved, bt_lists,
                   bt_files, bt_links, bt_seen>>

(* Claims C14 - C18, C20 *)

BatchOver == bt_pc \in {"done", "crashed"}

\* the trimmed, non-blank links an input URL resolved to
ResolvedUrls(u) == {strip(bt_extracted[u][k]) : k \in 1..Len(bt_extracted[u])} \ {NoText}

Handled == {bt_handled[k] : k \in 1..Len(bt_handled)}

\* C14: a resolved URL whose every identifier fails does not abort the batch:
\* when a run that hands off is over, every resolved URL of every input has
\* been attempted.
C14_FailureDoesNotAbort ==
    (BatchOver /\ ~bt_in.dry_run) =>
        \A u \in DOMAIN bt_extracted : \A l \in ResolvedUrls(u) :
            \E h \in Handled : h.input = u /\ h.url = l

EvaluateOver ==
    /\ bt_in.driver = "archive_from_csv.main"
    /\ bt_pc \in {"evaluated", "dispatch", "send", "open", "done", "crashed"}

\* C15: after the loop of evaluate_urls every input URL is in exactly one of
\* successes and failures, both in input order, and extracted maps exactly
\* the successes, each to a non-empty list of links.
C15_EvaluatePartition ==
    EvaluateOver =>
        LET failed == [k \in 1..Len(bt_failures) |-> bt_failures[k].url]
            S == {bt_successes[k] : k \in 1..Len(bt_successes)}
            F == {failed[k] : k \in 1..Len(failed)}
        IN  /\ S \cap F = {}
            /\ S \cup F = {bt_in.urls[k] : k \in 1..Len(bt_in.urls)}
            /\ bt_successes = SelectSeq(bt_in.urls, LAMBDA u : u \in S)
            /\ failed = SelectSeq(bt_in.urls, LAMBDA u : u \in F)
            /\ DOMAIN bt_extracted = S
            /\ \A u \in S : bt_extracted[u] # <<>>

\* evaluate_urls is over: the first URL failed and the second one succeeded
C15_Witness ==
    /\ EvaluateOver
    /\ Len(bt_in.urls) = 2
    /\ bt_successes = <<bt_in.urls[2]>>
    /\ Len(bt_failures) = 1
    /\ bt_failures[1].reason = "extract"

\* C16: over a run no trimmed URL is handed to the download agent twice,
\* whatever inputs it came from, and no blank URL is handed off.
C16_HandedOffAtMostOnce ==
    /\ \A j, k \in 1..Len(bt_handled) :
            (j # k /\ bt_handled[j].ok /\ bt_handled[k].ok)
                => bt_handled[j].url # bt_handled[k].url
    /\ \A h \in Handled : h.url # NoText

\* the attempts follow DOWNIE_APP_CANDIDATES and only the last one may exit 0
InOrder(attempts) ==
    /\ Len(attempts) <= Len(DOWNIE_APP_CANDIDATES)
    /\ \A k \in 1..Len(attempts) : attempts[k].app = DOWNIE_APP_CANDIDATES[k]
    /\ \A k \in 1..(Len(attempts) - 1) : attempts[k].returncode # 0

\* C17: for each URL send_to_downie tries 'Downie 4' then 'Downie', the next
\* only after a non-zero exit, stops at the first zero exit, raises only
\* after every identifier failed, and hands a URL off at most once per call.
C17_IdentifierOrder ==
    /\ InOrder(bt_attempts)
    /\ bt_pc = "open" =>
        /\ Len(bt_attempts) < Len(DOWNIE_APP_CANDIDATES)
        /\ \A k \in 1..Len(bt_attempts) : bt_attempts[k].returncode # 0
    /\ (bt_pc # "open" /\ bt_attempts # <<>>) =>
        /\ bt_handled # <<>>
        /\ bt_handled[Len(bt_handled)].ok <=> bt_attempts[Len(bt_attempts)].returncode = 0
        /\ ~bt_handled[Len(bt_handled)].ok => Len(bt_attempts) = Len(DOWNIE_APP_CANDIDATES)
    /\ \A j, k \in 1..Len(bt_handled) :
            (j # k /\ bt_handled[j].input = bt_handled[k].input)
                => bt_handled[j].url # bt_handled[k].url

\* a URL went through on 'Downie' after 'Downie 4' failed, and before it
\* another URL had failed on both
C17_Witness ==
    /\ bt_pc # "open"
    /\ Len(bt_attempts) = 2
    /\ Len(bt_handled) = 2
    /\ ~bt_handled[1].ok
    /\ bt_handled[2].ok

\* the position of the first twitter-classified input URL, as a list
FirstTwitter ==
    LET T == {k \in 1..Len(bt_in.urls) : classify_url(bt_in.urls[k]) = "twitter"}
    IN  IF T = {} THEN <<>> ELSE <<CHOOSE k \in T : \A m \in T : k <= m>>

LoopOver ==
    \/ bt_in.driver = "downie_dispatch.main" /\ bt_pc = "done"
    \/ EvaluateOver

\* C18: resolve_twitter_cookies runs at most once per batch loop: at the
\* first twitter URL, not at all without one, and never again, whatever the
\* first resolution returned.
C18_CookiesResolvedOnce ==
    /\ Len(bt_resolved) <= 1
    /\ bt_resolved # <<>> => bt_resolved = FirstTwitter
    /\ (bt_pc = "extract" /\ bt_strategy = "twitter") => bt_resolved # <<>>
    /\ LoopOver => bt_resolved = FirstTwitter

\* the loop went over two twitter URLs and the resolution, run at the first
\* one, returned no cookies
C18_Witness ==
    /\ LoopOver
    /\ Len(bt_in.urls) = 2
    /\ \A k \in 1..2 : classify_url(bt_in.urls[k]) = "twitter"
    /\ bt_cookies = "None"
    /\ bt_resolved = <<1>>

\* C20: after a non-dry run of archive_from_csv.main every URL recorded as
\* processed has had each of its resolved links handed to the download agent.
C20_ProcessedOnlyIfDispatched ==
    (bt_in.driver = "archive_from_csv.main" /\ ~bt_in.dry_run /\ BatchOver) =>
        \A k \in 1..Len(bt_processed) : \A l \in ResolvedUrls(bt_processed[k]) :
            \E h \in Handled : h.ok /\ h.url = l

(* Claim C21 *)

\* the cookies of the X/Twitter jar among the cookies argument of the latest
\* extract_links call
XCookiesPassed == {k \in Keys(bt_passed.cookies.d) : bt_passed.cookies.d[k] = "x"}

\* C21: the cookies passed to an extraction depend only on the URL's
\* classification and the configured cookie sources, not on the URLs that came
\* earlier in the batch: the X/Twitter cookie jar is passed only to the
\* extraction of a twitter-classified URL, never to a youtube or other URL, in
\* evaluate_urls and in downie_dispatch.main
C21_XJarOnlyForTwitter ==
    bt_passed.strategy \in {"youtube", "other"} => XCookiesPassed = {}

----------------------------------------------------------------------------
(* Specifications                                                          *)

InitClassify == ClassifyInit /\ CookieIdle /\ HlsIdle /\ PageIdle /\ VariantIdle /\ VxIdle /\ BatchIdle
NextClassify == Classify /\ UNCHANGED <<ck_vars, hl_vars, pg_vars, cv_vars, vx_vars, bt_vars>>
SpecClassify == InitClassify /\ [][NextClassify]_vars

InitCookies == CookieInit /\ ClassifyIdle /\ HlsIdle /\ PageIdle /\ VariantIdle /\ VxIdle /\ BatchIdle
NextCookies ==
    \/ ResolveInline /\ UNCHANGED <<cl_vars, hl_vars, pg_vars, cv_vars, vx_vars, bt_vars>>
    \/ ResolveFile /\ UNCHANGED <<cl_vars, hl_vars, pg_vars, cv_vars, vx_vars, bt_vars>>
    \/ ResolveCommand /\ UNCHANGED <<cl_vars, hl_vars, pg_vars, cv_vars, vx_vars, bt_vars>>
    \/ ResolveBuild /\ UNCHANGED <<cl_vars, hl_vars, pg_vars, cv_vars, vx_vars, bt_vars>>
    \/ WrapperReturn /\ UNCHANGED <<cl_vars, hl_vars, pg_vars, cv_vars, vx_vars, bt_vars>>
    \/ WrapperCatch /\ UNCHANGED <<cl_vars, hl_vars, pg_vars, cv_vars, vx_vars, bt_vars>>
    \/ DispatchMerge /\ UNCHANGED <<cl_vars, hl_vars, pg_vars, cv_vars, vx_vars, bt_vars>>
    \/ EvaluatePass /\ UNCHANGED <<cl_vars, hl_vars, pg_vars, cv_vars, vx_vars, bt_vars>>
    \/ TwitterMainPass /\ UNCHANGED <<cl_vars, hl_vars, pg_vars, cv_vars, vx_vars, bt_vars>>
    \/ TwitterMainFail /\ UNCHANGED <<cl_vars, hl_vars, pg_vars, cv_vars, vx_vars, bt_vars>>
SpecCookies == InitCookies /\ [][NextCookies]_vars

InitHls == HlsInit /\ ClassifyIdle /\ CookieIdle /\ PageIdle /\ VariantIdle /\ VxIdle /\ BatchIdle
NextHls ==
    \/ HlsFetchFails /\ UNCHANGED <<cl_vars, ck_vars, pg_vars, cv_vars, vx_vars, bt_vars>>
    \/ HlsMediaPlaylist /\ UNCHANGED <<cl_vars, ck_vars, pg_vars, cv_vars, vx_vars, bt_vars>>
    \/ HlsScan /\ UNCHANGED <<cl_vars, ck_vars, pg_vars, cv_vars, vx_vars, bt_vars>>
SpecHls == InitHls /\ [][NextHls]_vars

InitPage == PageInit /\ ClassifyIdle /\ CookieIdle /\ HlsIdle /\ VariantIdle /\ VxIdle /\ BatchIdle
NextPage ==
    \/ ExtractLinksOther /\ UNCHANGED <<cl_vars, ck_vars, hl_vars, cv_vars, vx_vars, bt_vars>>
    \/ EnsureArchiveUrl /\ UNCHANGED <<cl_vars, ck_vars, hl_vars, cv_vars, vx_vars, bt_vars>>
    \/ FetchHtml /\ UNCHANGED <<cl_vars, ck_vars, hl_vars, cv_vars, vx_vars, bt_vars>>
    \/ ParseConfigs /\ UNCHANGED <<cl_vars, ck_vars, hl_vars, cv_vars, vx_vars, bt_vars>>
    \/ ResolveConfig /\ UNCHANGED <<cl_vars, ck_vars, hl_vars, cv_vars, vx_vars, bt_vars>>
    \/ ReturnVideos /\ UNCHANGED <<cl_vars, ck_vars, hl_vars, cv_vars, vx_vars, bt_vars>>
SpecPage == InitPage /\ [][NextPage]_vars

InitVariant == VariantInit /\ ClassifyIdle /\ CookieIdle /\ HlsIdle /\ PageIdle /\ VxIdle /\ BatchIdle
NextVariant == ChooseBestVariant /\ UNCHANGED <<cl_vars, ck_vars, hl_vars, pg_vars, vx_vars, bt_vars>>
SpecVariant == InitVariant /\ [][NextVariant]_vars

InitVx == VxInit /\ ClassifyIdle /\ CookieIdle /\ HlsIdle /\ PageIdle /\ VariantIdle /\ BatchIdle
NextVx ==
    \/ VxMatchUrl /\ UNCHANGED <<cl_vars, ck_vars, hl_vars, pg_vars, cv_vars, bt_vars>>
    \/ VxRequest /\ UNCHANGED <<cl_vars, ck_vars, hl_vars, pg_vars, cv_vars, bt_vars>>
    \/ VxNonJson /\ UNCHANGED <<cl_vars, ck_vars, hl_vars, pg_vars, cv_vars, bt_vars>>
    \/ VxJSONDecodeError /\ UNCHANGED <<cl_vars, ck_vars, hl_vars, pg_vars, cv_vars, bt_vars>>
    \/ VxStatusLookup /\ UNCHANGED <<cl_vars, ck_vars, hl_vars, pg_vars, cv_vars, bt_vars>>
    \/ VxLoads /\ UNCHANGED <<cl_vars, ck_vars, hl_vars, pg_vars, cv_vars, bt_vars>>
    \/ VxMediaExtended /\ UNCHANGED <<cl_vars, ck_vars, hl_vars, pg_vars, cv_vars, bt_vars>>
    \/ VxMedia /\ UNCHANGED <<cl_vars, ck_vars, hl_vars, pg_vars, cv_vars, bt_vars>>
    \/ VxMediaUrls /\ UNCHANGED <<cl_vars, ck_vars, hl_vars, pg_vars, cv_vars, bt_vars>>
SpecVx == InitVx /\ [][NextVx]_vars

InitBatch == BatchInit /\ ClassifyIdle /\ CookieIdle /\ HlsIdle /\ PageIdle /\ VariantIdle /\ VxIdle
NextBatch ==
    \/ BatchClassify /\ UNCHANGED <<cl_vars, ck_vars, hl_vars, pg_vars, cv_vars, vx_vars>>
    \/ BatchLoopEnd /\ UNCHANGED <<cl_vars, ck_vars, hl_vars, pg_vars, cv_vars, vx_vars>>
    \/ BatchCookies /\ UNCHANGED <<cl_vars, ck_vars, hl_vars, pg_vars, cv_vars, vx_vars>>
    \/ BatchExtract /\ UNCHANGED <<cl_vars, ck_vars, hl_vars, pg_vars, cv_vars, vx_vars>>
    \/ BatchPersist /\ UNCHANGED <<cl_vars, ck_vars, hl_vars, pg_vars, cv_vars, vx_vars>>
    \/ BatchDispatchMedia /\ UNCHANGED <<cl_vars, ck_vars, hl_vars, pg_vars, cv_vars, vx_vars>>
    \/ SendNext /\ UNCHANGED <<cl_vars, ck_vars, hl_vars, pg_vars, cv_vars, vx_vars>>
    \/ SendOpen /\ UNCHANGED <<cl_vars, ck_vars, hl_vars, pg_vars, cv_vars, vx_vars>>
SpecBatch == InitBatch /\ [][NextBatch]_vars

====
